---------------------------- MODULE Spec2Model ----------------------------
(***************************************************************************)
(* Model of the virtual vehicle test bench (virtual_vehicle/): the         *)
(* SimulationEngine, the VirtualBus with its FaultInjector, the plants     *)
(* (VehicleDynamics, BatteryPlant, ChargingStation, RadarGenerator) and    *)
(* the ECUs (AdasECU, BmsECU, GatewayECU).                                 *)
(*                                                                         *)
(* The program is single threaded and every bus.broadcast() runs its whole *)
(* fan-out, with all re-entrant broadcasts, before it returns.  A          *)
(* broadcast is therefore an operator from program state to program state  *)
(* (Broadcast), and an action of the model is one call made by the test    *)
(* harness: engine.step(), bus.broadcast(...), charger.connect_cable(),    *)
(* injector.inject(...), or a direct attribute write.                      *)
(*                                                                         *)
(* Numbers.  Python floats are modelled in fixed point with three          *)
(* decimals: 2.5 s is 2500, 1.75 m is 1750, 320.0 V is 320000, a brake     *)
(* command of 1.0 is 1000, dt = 0.1 s is 100.  A product of two such       *)
(* numbers is divided by 1000 again (Mul).  UDS/OBD identifiers are plain  *)
(* integers.                                                               *)
(*                                                                         *)
(* Payloads.  A payload is a record with a tag t: "num", "str", "bool",    *)
(* "dict" (d: a record, a missing key is a missing field) or "list"        *)
(* (l: a sequence of records).                                             *)
(*                                                                         *)
(* Exceptions.  A Python exception that is raised sets exc to the name of  *)
(* its class; every statement after it is skipped until an except clause   *)
(* that catches it (only AdasECU.receive_message and                       *)
(* GatewayECU.handle_ota_update have one) or until it leaves the call the  *)
(* harness made.                                                           *)
(***************************************************************************)
EXTENDS Integers, Sequences, FiniteSets, TLC

\* ------------------------------------------------------------------ bounds

\* Each specification bounds the engine.step() calls (ticks) and the other
\* harness calls (calls) of a run.
BusTicks == 1
BusCalls == 3
AdasTicks == 2
AdasCalls == 1
BmsTicks == 2
BmsCalls == 2
UdsTicks == 1
UdsCalls == 1
VehTicks == 2
VehCalls == 2
LogTicks == 1
LogCalls == 2
RunCalls == 1
DropTicks == 2
DropCalls == 2
MalTicks == 1
MalCalls == 2
StationaryTicks == 60
CutInTicks == 50
OtaTicks == 1
OtaCalls == 2
IdsTicks == 1
IdsCalls == 2
OdoTicks == 21
OdoCalls == 1
NvmTicks == 2
NvmCalls == 3
AirbagTicks == 3
AirbagCalls == 2
InjCalls == 4
LkaTicks == 1
LkaCalls == 1
ChgTicks == 2
ChgCalls == 3
SvcTicks == 1
SvcCalls == 1
EvseTicks == 3
EvseCalls == 2
RadarTicks == 2
RadarCalls == 3
ArbTicks == 3
ArbCalls == 2
StormTicks == 2
StormCalls == 2
ExpTicks == 3
ExpCalls == 2

\* ------------------------------------------------------- program constants

LOG_MAXLEN == 1000
TTC_THRESHOLD == 2500
LANE_HALF_WIDTH == 1750
MAX_TEMP_LIMIT == 60000
MIN_VOLTAGE_LIMIT == 320000
MAX_VOLTAGE_LIMIT == 420000
TARGET_SOC == 90000
SEED_VALUE == 4660
POSITIVE_OFFSET == 64
NEGATIVE_SID == 127
CRASH_THRESHOLD_G == -5000

\* ------------------------------------------------------------------- state

VARIABLES
    nodes,        \* VirtualBus.nodes: the registry, a sequence of [cls, name]
    message_log,  \* VirtualBus.message_log: deque(maxlen = 1000)
    injector,     \* VirtualBus.fault_injector: [attached, active_faults]
    engine,       \* SimulationEngine: [dt, plants, ecus, running]
    adas,         \* AdasECU fields
    bms,          \* BmsECU fields
    gateway,      \* GatewayECU fields
    vehicle,      \* VehicleDynamics fields
    battery,      \* BatteryPlant fields
    charger,      \* ChargingStation fields
    radar,        \* RadarGenerator fields
    esc,          \* EscECU fields
    airbag,       \* AirbagECU fields
    body,         \* BodyECU fields
    nvm,          \* the file at BodyECU.storage_path
    exc,          \* the exception that left the last harness call, or "none"
    obs,          \* what the last harness call did (history, not program state)
    ticks,        \* engine.step() calls so far
    calls         \* other harness calls so far

vars == <<nodes, message_log, injector, engine, adas, bms, gateway, vehicle,
          battery, charger, radar, esc, airbag, body, nvm, exc, obs, ticks, calls>>

\* ---------------------------------------------------------------- payloads

Num(x) == [t |-> "num", v |-> x]
Str(s) == [t |-> "str", s |-> s]
Bool(b) == [t |-> "bool", b |-> b]
Dict(r) == [t |-> "dict", d |-> r]
List(s) == [t |-> "list", l |-> s]
None == [t |-> "none"]

IsNum(p) == p.t = "num"
\* the number a numeric payload stands for in arithmetic (True is 1)
Float(p) == IF p.t = "bool" THEN (IF p.b THEN 1000 ELSE 0) ELSE p.v
IsDict(p) == p.t = "dict"
Has(r, k) == k \in DOMAIN r

\* Python truthiness of a payload (bool(data))
Truthy(p) ==
    CASE p.t = "num" -> p.v # 0
      [] p.t = "str" -> p.s # ""
      [] p.t = "bool" -> p.b
      [] p.t = "dict" -> DOMAIN p.d # {}
      [] p.t = "list" -> p.l # <<>>
      [] p.t = "none" -> FALSE

\* Fixed-point product and quotient (three decimals), rounding down, split
\* so that no intermediate value leaves the 32-bit integers.
Mul(a, b) ==
    (a \div 1000) * b + (a % 1000) * (b \div 1000) + ((a % 1000) * (b % 1000)) \div 1000
DivPos(a, b) ==
    IF b % 1000 = 0 THEN a \div (b \div 1000)
    ELSE (a \div b) * 1000 + ((a % b) * 1000) \div b
Div(a, b) == IF b < 0 THEN DivPos(-a, -b) ELSE DivPos(a, b)
Abs(x) == IF x < 0 THEN -x ELSE x
Max(a, b) == IF a >= b THEN a ELSE b
Min(a, b) == IF a <= b THEN a ELSE b

\* -------------------------------------------------------------- the world

\* The program state as one value, threaded through the synchronous calls.
World ==
    [nodes |-> nodes, log |-> message_log, inj |-> injector, eng |-> engine,
     adas |-> adas, bms |-> bms, gw |-> gateway, veh |-> vehicle,
     bat |-> battery, chg |-> charger, radar |-> radar, esc |-> esc,
     airbag |-> airbag, body |-> body, nvm |-> nvm, exc |-> exc, obs |-> obs]

Raised(w) == w.exc # "none"
Raise(w, e) == [w EXCEPT !.exc = e]

\* the file at storage_path: absent, text that is not JSON, or a JSON value
NoFile == [kind |-> "missing"]
BadFile == [kind |-> "garbage"]

\* obs of a harness call that has not done anything yet
NoObs ==
    [emits |-> <<>>, rxs |-> <<>>, sched |-> <<>>, cur |-> 0, thrown |-> 0, ret |-> <<>>,
     trans |-> <<>>]

\* ------------------------------------------------------------ FaultInjector

\* FaultInjector.process, the loop over active_faults from fault i on
RECURSIVE ProcessFrom(_, _, _, _, _)
ProcessFrom(faults, i, msg_id, data, drop) ==
    IF i > Len(faults) THEN [id |-> msg_id, data |-> data, drop |-> drop]
    ELSE LET f == faults[i]
             hit == f.target = msg_id \/ f.target = "ALL"
         IN  IF hit /\ f.type = "DROP"
               THEN ProcessFrom(faults, i + 1, msg_id, data, TRUE)
             ELSE IF hit /\ f.type = "CORRUPT"
               THEN ProcessFrom(faults, i + 1, msg_id, Str("CORRUPTED_DATA"), drop)
             ELSE ProcessFrom(faults, i + 1, msg_id, data, drop)

\* process with a drop flag that is never set
Process_NeverDrops(faults, msg_id, data) ==
    [ProcessFrom(faults, 1, msg_id, data, FALSE) EXCEPT !.drop = FALSE]

\* process that treats a fault with a duration as expired
Process_TimedFaultsExpired(faults, msg_id, data) ==
    ProcessFrom(SelectSeq(faults, LAMBDA f : f.duration = 0), 1, msg_id, data, FALSE)

\* process that looks at the first fault only
Process_FirstFaultOnly(faults, msg_id, data) ==
    ProcessFrom(SubSeq(faults, 1, Min(1, Len(faults))), 1, msg_id, data, FALSE)

\* FaultInjector.process
Process(faults, msg_id, data) == ProcessFrom(faults, 1, msg_id, data, FALSE)

\* FaultInjector.inject(fault_type, target_id, duration)
InjectFor(inj, fault_type, target_id, duration) ==
    [inj EXCEPT !.active_faults =
         Append(@, [type |-> fault_type, target |-> target_id, duration |-> duration])]

\* FaultInjector.inject with the default duration = 0
Inject(inj, fault_type, target_id) == InjectFor(inj, fault_type, target_id, 0)

\* --------------------------------------------------------------------- bus

\* VirtualBus.register
Register(w, node) == [w EXCEPT !.nodes = Append(@, node)]

\* a bounded queue that refuses the new element when full
DequeAppend_KeepOldest(q, x) ==
    IF Len(q) >= LOG_MAXLEN THEN q ELSE Append(q, x)

\* collections.deque(maxlen).append
DequeAppend(q, x) ==
    IF Len(q) >= LOG_MAXLEN THEN Append(Tail(q), x) ELSE Append(q, x)

RECURSIVE Broadcast(_, _, _, _)

\* ----------------------------------------------------------------- AdasECU

\* a time to collision dist / -rel_speed as a fraction; float('inf') is 1/0
TtcInf == [n |-> 1, d |-> 0]
TtcLess(a, b) == a.n * b.d < b.n * a.d
TtcMin_Max(a, b) == IF TtcLess(b, a) THEN a ELSE b
TtcMin(a, b) == IF TtcLess(b, a) THEN b ELSE a
\* min_ttc < self.ttc_threshold
BelowThreshold(ttc) == ttc.d # 0 /\ ttc.n * 1000 < TTC_THRESHOLD * ttc.d

\* trigger_aeb that sets the flag and sends nothing
TriggerAeb_NoBrake(w) == [w EXCEPT !.adas.aeb_triggered = TRUE]

\* AdasECU.trigger_aeb
TriggerAeb(w) ==
    Broadcast([w EXCEPT !.adas.aeb_triggered = TRUE],
              "BRAKE_CMD", Num(1000), w.adas.name)

\* AdasECU.release_aeb
ReleaseAeb(w) ==
    Broadcast([w EXCEPT !.adas.aeb_triggered = FALSE],
              "BRAKE_CMD", Num(0), w.adas.name)

\* the loop of process_radar without the lane filter
RECURSIVE RadarLoop_NoLaneFilter(_, _, _)
RadarLoop_NoLaneFilter(objects, i, min_ttc) ==
    IF i > Len(objects) THEN [exc |-> "none", min_ttc |-> min_ttc]
    ELSE LET obj == objects[i]
         IN  IF ~Has(obj, "dist") \/ ~Has(obj, "rel_speed")
               THEN [exc |-> "KeyError", min_ttc |-> min_ttc]
             ELSE IF obj.rel_speed < 0
               THEN RadarLoop_NoLaneFilter(objects, i + 1,
                        TtcMin(min_ttc, [n |-> obj.dist, d |-> -obj.rel_speed]))
             ELSE RadarLoop_NoLaneFilter(objects, i + 1, min_ttc)

\* The for loop of process_radar from object i on: the minimum time to
\* collision, or the exception an object raises (obj['dist'], obj['rel_speed']).
RECURSIVE RadarLoop(_, _, _)
RadarLoop(objects, i, min_ttc) ==
    IF i > Len(objects) THEN [exc |-> "none", min_ttc |-> min_ttc]
    ELSE LET obj == objects[i]
         IN  IF ~Has(obj, "dist") \/ ~Has(obj, "rel_speed")
               THEN [exc |-> "KeyError", min_ttc |-> min_ttc]
             ELSE LET lat_pos == IF Has(obj, "lat_pos") THEN obj.lat_pos ELSE 0
                  IN  IF Abs(lat_pos) > LANE_HALF_WIDTH
                        THEN RadarLoop(objects, i + 1, min_ttc)
                      ELSE IF obj.rel_speed < 0
                        THEN RadarLoop(objects, i + 1,
                                 TtcMin(min_ttc, [n |-> obj.dist, d |-> -obj.rel_speed]))
                      ELSE RadarLoop(objects, i + 1, min_ttc)

\* process_radar that releases whether or not the AEB is on
ProcessRadar_AlwaysRelease(w, objects) ==
    IF objects.t # "list" THEN Raise(w, "ValueError")
    ELSE LET r == RadarLoop(objects.l, 1, TtcInf)
         IN  IF r.exc # "none" THEN Raise(w, r.exc)
             ELSE IF BelowThreshold(r.min_ttc) THEN TriggerAeb(w)
             ELSE ReleaseAeb(w)

\* AdasECU.process_radar
ProcessRadar(w, objects) ==
    IF objects.t # "list" THEN Raise(w, "ValueError")
    ELSE LET r == RadarLoop(objects.l, 1, TtcInf)
         IN  IF r.exc # "none" THEN Raise(w, r.exc)
             ELSE IF BelowThreshold(r.min_ttc) THEN TriggerAeb(w)
             ELSE IF w.adas.aeb_triggered THEN ReleaseAeb(w)
             ELSE w

\* process_lane without the limit on the steering angle
ProcessLane_NoLimit(w, lane_data) ==
    IF ~IsDict(lane_data) THEN Raise(w, "AttributeError")
    ELSE LET d == lane_data.d
             confidence == IF Has(d, "confidence") THEN d.confidence ELSE 1000
         IN  IF confidence < 600 THEN w
             ELSE IF ~Has(d, "lane_offset") THEN Raise(w, "KeyError")
             ELSE LET heading == IF Has(d, "heading_idx") THEN d.heading_idx ELSE 0
                      steer_cmd == -(Mul(50, d.lane_offset) + Mul(1500, heading))
                  IN  Broadcast(w, "STEERING_CMD", Num(steer_cmd), w.adas.name)

\* AdasECU.process_lane
ProcessLane(w, lane_data) ==
    IF ~IsDict(lane_data) THEN Raise(w, "AttributeError")
    ELSE LET d == lane_data.d
             confidence == IF Has(d, "confidence") THEN d.confidence ELSE 1000
         IN  IF confidence < 600 THEN w
             ELSE IF ~Has(d, "lane_offset") THEN Raise(w, "KeyError")
             ELSE LET heading == IF Has(d, "heading_idx") THEN d.heading_idx ELSE 0
                      steer_cmd == -(Mul(50, d.lane_offset) + Mul(1500, heading))
                  IN  Broadcast(w, "STEERING_CMD",
                                Num(Max(-500, Min(500, steer_cmd))), w.adas.name)

\* receive_message without the try/except around process_radar
AdasReceive_NoCatch(w, msg_id, data, sender) ==
    IF msg_id = "RADAR_OBJECTS" THEN ProcessRadar(w, data)
    ELSE IF msg_id = "CAMERA_LANE" THEN ProcessLane(w, data)
    ELSE w

\* AdasECU.receive_message: the except clause catches ValueError, KeyError
\* and TypeError raised anywhere below process_radar
AdasReceive(w, msg_id, data, sender) ==
    IF msg_id = "RADAR_OBJECTS"
      THEN LET w1 == ProcessRadar(w, data)
           IN  IF w1.exc \in {"ValueError", "KeyError", "TypeError"}
                 THEN ReleaseAeb([w1 EXCEPT !.exc = "none"])
               ELSE w1
    ELSE IF msg_id = "CAMERA_LANE" THEN ProcessLane(w, data)
    ELSE w

\* ------------------------------------------------------------------ BmsECU

\* BmsECU.open_contactors
OpenContactors(w) ==
    Broadcast([w EXCEPT !.bms.contactors_closed = FALSE],
              "CONTACTOR_STATE", Bool(FALSE), w.bms.name)

\* BmsECU.close_contactors
CloseContactors(w) ==
    Broadcast([w EXCEPT !.bms.contactors_closed = TRUE],
              "CONTACTOR_STATE", Bool(TRUE), w.bms.name)

\* self.charging_state = state in BmsECU; obs.trans notes the assignment with
\* the reception it was made under (0 in a step) and the SoC estimate
SetChargingState(w, state) ==
    [w EXCEPT !.bms.charging_state = state,
              !.obs.trans = Append(@, [from |-> w.bms.charging_state, to |-> state,
                                       rx |-> w.obs.cur, soc |-> w.bms.soc_estimate])]

\* BmsECU.stop_charging
StopCharging(w) ==
    Broadcast(SetChargingState(w, "IDLE"),
              "CHARGE_REQUEST", Dict([charging_enabled |-> FALSE]), w.bms.name)

\* two statements in sequence: the second is skipped when the first raised
Then(w1, w2) == IF Raised(w1) THEN w1 ELSE w2

\* check_voltage without the over-voltage branch
CheckVoltage_UnderOnly(w, voltage) ==
    IF ~IsNum(voltage) THEN Raise(w, "TypeError")
    ELSE IF voltage.v < MIN_VOLTAGE_LIMIT THEN OpenContactors(w)
    ELSE w

\* BmsECU.check_voltage
CheckVoltage(w, voltage) ==
    IF ~IsNum(voltage) THEN Raise(w, "TypeError")
    ELSE IF voltage.v < MIN_VOLTAGE_LIMIT THEN OpenContactors(w)
    ELSE IF voltage.v > MAX_VOLTAGE_LIMIT
      THEN LET w1 == OpenContactors(w) IN Then(w1, StopCharging(w1))
    ELSE w

\* BmsECU.check_temp
CheckTemp(w, temp) ==
    IF ~IsNum(temp) THEN Raise(w, "TypeError")
    ELSE IF temp.v > MAX_TEMP_LIMIT
      THEN LET w1 == OpenContactors(w) IN Then(w1, StopCharging(w1))
    ELSE w

\* handle_charger_status starting a handshake in every state
HandleChargerStatus_AnyState(w, status) ==
    IF ~IsDict(status) THEN Raise(w, "AttributeError")
    ELSE IF Has(status.d, "state") /\ status.d.state = "CONNECTED"
      THEN CloseContactors(SetChargingState(w, "HANDSHAKE"))
    ELSE w

\* BmsECU.handle_charger_status
HandleChargerStatus(w, status) ==
    IF ~IsDict(status) THEN Raise(w, "AttributeError")
    ELSE IF Has(status.d, "state") /\ status.d.state = "CONNECTED"
            /\ w.bms.charging_state = "IDLE"
      THEN CloseContactors(SetChargingState(w, "HANDSHAKE"))
    ELSE w

\* BmsECU.receive_message
BmsReceive(w, msg_id, data, sender) ==
    IF msg_id = "HV_VOLTAGE" THEN CheckVoltage(w, data)
    ELSE IF msg_id = "HV_TEMP" THEN CheckTemp(w, data)
    ELSE IF msg_id = "CHARGER_STATUS" THEN HandleChargerStatus(w, data)
    ELSE w

\* BmsECU.step
BmsStep(w, dt) ==
    LET w1 == Broadcast(w, "BMS_SOC", Num(w.bms.soc_estimate), w.bms.name)
    IN  IF Raised(w1) THEN w1
        ELSE IF w1.bms.charging_state \in {"HANDSHAKE", "CHARGING"}
          THEN IF w1.bms.soc_estimate < w1.bms.target_soc
                 THEN Broadcast(SetChargingState(w1, "CHARGING"),
                          "CHARGE_REQUEST",
                          Dict([voltage_target |-> 400000,
                                current_target |->
                                    IF w1.bms.soc_estimate < 80000 THEN 100000 ELSE 20000,
                                charging_enabled |-> TRUE]),
                          w1.bms.name)
               ELSE LET w2 == StopCharging(w1) IN Then(w2, OpenContactors(w2))
        ELSE w1

\* -------------------------------------------------------------- GatewayECU

\* 'CMD' in msg_id, over the message identifiers of the bench
ContainsCMD(msg_id) == msg_id \in {"STEERING_CMD", "BRAKE_CMD", "ACCEL_CMD"}

ALLOWED_SENDERS == {"ADAS_ECU", "BMS_ECU", "VehicleDynamics", "TestHarness", "V2XRadio"}

\* GatewayECU.rollback
Rollback(w) == Broadcast(w, "OTA_STATUS", Str("ROLLBACK_COMPLETE"), w.gw.name)

\* handle_ota_update that writes the version before flashing the binary
HandleOtaUpdate_VersionBeforeFlash(w, payload) ==
    IF ~IsDict(payload) THEN Raise(w, "AttributeError")
    ELSE LET d == payload.d
             w1 == [w EXCEPT !.gw.current_version =
                        IF Has(d, "version") THEN d.version ELSE "None"]
         IN  IF ~Has(d, "signature") \/ d.signature # "valid_sig"
               THEN Broadcast(w, "OTA_STATUS", Str("FAILED_SIG_VERIFY"), w.gw.name)
             ELSE IF Has(d, "binary") /\ d.binary = "corrupt_chunk"
               THEN Rollback(w1)
             ELSE Broadcast(w1, "OTA_STATUS", Str("SUCCESS"), w.gw.name)

\* GatewayECU.handle_ota_update
HandleOtaUpdate(w, payload) ==
    IF ~IsDict(payload) THEN Raise(w, "AttributeError")
    ELSE LET d == payload.d
         IN  IF ~Has(d, "signature") \/ d.signature # "valid_sig"
               THEN Broadcast(w, "OTA_STATUS", Str("FAILED_SIG_VERIFY"), w.gw.name)
             ELSE IF Has(d, "binary") /\ d.binary = "corrupt_chunk"
               THEN Rollback(w)
             ELSE Broadcast(
                      [w EXCEPT !.gw.current_version =
                           IF Has(d, "version") THEN d.version ELSE "None"],
                      "OTA_STATUS", Str("SUCCESS"), w.gw.name)

\* GatewayECU._process_obd
ProcessObd(w, request) ==
    IF ~IsDict(request) THEN Raise(w, "AttributeError")
    ELSE IF ~Has(request.d, "mode") THEN Raise(w, "TypeError")
    ELSE LET mode == request.d.mode
             pid == IF Has(request.d, "pid") THEN request.d.pid ELSE 0
             data == IF mode = 1 /\ pid = 1 THEN Num(0)
                     ELSE IF mode = 1 /\ pid = 12 THEN Num(3000)
                     ELSE IF mode = 3 THEN List(<<"P0123">>)
                     ELSE IF mode = 9 /\ pid = 2 THEN Str("1FA-VIRTUAL-CAR-001")
                     ELSE None
         IN  Broadcast(w, "OBD_RESPONSE",
                       Dict([mode |-> mode + 64, pid |-> pid, data |-> data]),
                       w.gw.name)

\* a service dispatch that locks the gateway again on an invalid key
UdsService_LockOnInvalidKey(gw, sid, sub_fn, did, request) ==
    LET same == [gw |-> gw, data |-> None, nrc |-> 0]
    IN  IF sid = 16
          THEN IF sub_fn \in {1, 2, 3}
                 THEN [gw |-> [gw EXCEPT !.diagnostic_session = sub_fn],
                       data |-> Dict([p2_server |-> 50, p2_star_server |-> 500]),
                       nrc |-> 0]
               ELSE [same EXCEPT !.nrc = 18]
        ELSE IF sid = 34
          THEN IF did = 61840 THEN [same EXCEPT !.data = Str("1FA-VIRTUAL-CAR-001")]
               ELSE IF did = 512 THEN [same EXCEPT !.data = Num(400500)]
               ELSE [same EXCEPT !.nrc = 49]
        ELSE IF sid = 39
          THEN IF sub_fn = 1
                 THEN [gw |-> [gw EXCEPT !.security_seed = SEED_VALUE],
                       data |-> Num(SEED_VALUE), nrc |-> 0]
               ELSE IF sub_fn = 2
                 THEN IF Has(request, "data") /\ request.data = gw.security_seed + 1
                        THEN [gw |-> [gw EXCEPT !.security_unlocked = TRUE],
                              data |-> Str("UNLOCKED"), nrc |-> 0]
                      ELSE [gw |-> [gw EXCEPT !.security_unlocked = FALSE],
                            data |-> None, nrc |-> 53]
               ELSE same
        ELSE IF sid = 49
          THEN IF sub_fn = 1
                 THEN IF did = 256 THEN [same EXCEPT !.data = Str("STARTED")]
                      ELSE [same EXCEPT !.nrc = 49]
               ELSE [same EXCEPT !.nrc = 18]
        ELSE [same EXCEPT !.nrc = 17]

\* the service dispatch with a routine control that starts any routine
UdsService_AnyRoutine(gw, sid, sub_fn, did, request) ==
    LET same == [gw |-> gw, data |-> None, nrc |-> 0]
    IN  IF sid = 16
          THEN IF sub_fn \in {1, 2, 3}
                 THEN [gw |-> [gw EXCEPT !.diagnostic_session = sub_fn],
                       data |-> Dict([p2_server |-> 50, p2_star_server |-> 500]),
                       nrc |-> 0]
               ELSE [same EXCEPT !.nrc = 18]
        ELSE IF sid = 34
          THEN IF did = 61840 THEN [same EXCEPT !.data = Str("1FA-VIRTUAL-CAR-001")]
               ELSE IF did = 512 THEN [same EXCEPT !.data = Num(400500)]
               ELSE [same EXCEPT !.nrc = 49]
        ELSE IF sid = 39
          THEN IF sub_fn = 1
                 THEN [gw |-> [gw EXCEPT !.security_seed = SEED_VALUE],
                       data |-> Num(SEED_VALUE), nrc |-> 0]
               ELSE IF sub_fn = 2
                 THEN IF Has(request, "data") /\ request.data = gw.security_seed + 1
                        THEN [gw |-> [gw EXCEPT !.security_unlocked = TRUE],
                              data |-> Str("UNLOCKED"), nrc |-> 0]
                      ELSE [same EXCEPT !.nrc = 53]
               ELSE same
        ELSE IF sid = 49
          THEN IF sub_fn = 1 THEN [same EXCEPT !.data = Str("STARTED")]
               ELSE [same EXCEPT !.nrc = 18]
        ELSE [same EXCEPT !.nrc = 17]

\* The service dispatch of _process_uds: the gateway fields after the
\* request, the data of a positive response and the negative response code
\* (0: none).
UdsService(gw, sid, sub_fn, did, request) ==
    LET same == [gw |-> gw, data |-> None, nrc |-> 0]
    IN  IF sid = 16
          THEN IF sub_fn \in {1, 2, 3}
                 THEN [gw |-> [gw EXCEPT !.diagnostic_session = sub_fn],
                       data |-> Dict([p2_server |-> 50, p2_star_server |-> 500]),
                       nrc |-> 0]
               ELSE [same EXCEPT !.nrc = 18]
        ELSE IF sid = 34
          THEN IF did = 61840 THEN [same EXCEPT !.data = Str("1FA-VIRTUAL-CAR-001")]
               ELSE IF did = 512 THEN [same EXCEPT !.data = Num(400500)]
               ELSE [same EXCEPT !.nrc = 49]
        ELSE IF sid = 39
          THEN IF sub_fn = 1
                 THEN [gw |-> [gw EXCEPT !.security_seed = SEED_VALUE],
                       data |-> Num(SEED_VALUE), nrc |-> 0]
               ELSE IF sub_fn = 2
                 THEN IF Has(request, "data") /\ request.data = gw.security_seed + 1
                        THEN [gw |-> [gw EXCEPT !.security_unlocked = TRUE],
                              data |-> Str("UNLOCKED"), nrc |-> 0]
                      ELSE [same EXCEPT !.nrc = 53]
               ELSE same
        ELSE IF sid = 49
          THEN IF sub_fn = 1
                 THEN IF did = 256 THEN [same EXCEPT !.data = Str("STARTED")]
                      ELSE [same EXCEPT !.nrc = 49]
               ELSE [same EXCEPT !.nrc = 18]
        ELSE [same EXCEPT !.nrc = 17]

\* _process_uds that sends no negative response
ProcessUds_Silent(w, request) ==
    IF ~IsDict(request) THEN Raise(w, "AttributeError")
    ELSE IF ~Has(request.d, "sid") THEN Raise(w, "TypeError")
    ELSE LET sid == request.d.sid
             sub_fn == IF Has(request.d, "sub_fn") THEN request.d.sub_fn ELSE 0
             did == IF Has(request.d, "did") THEN request.d.did ELSE 0
             r == UdsService(w.gw, sid, sub_fn, did, request.d)
             w1 == [w EXCEPT !.gw = r.gw]
         IN  IF r.nrc # 0 THEN w1
             ELSE Broadcast(w1, "UDS_RESPONSE",
                      Dict([sid |-> sid + POSITIVE_OFFSET, sub_fn |-> sub_fn,
                            data |-> r.data]),
                      w.gw.name)

\* GatewayECU._process_uds
ProcessUds(w, request) ==
    IF ~IsDict(request) THEN Raise(w, "AttributeError")
    ELSE IF ~Has(request.d, "sid") THEN Raise(w, "TypeError")
    ELSE LET sid == request.d.sid
             sub_fn == IF Has(request.d, "sub_fn") THEN request.d.sub_fn ELSE 0
             did == IF Has(request.d, "did") THEN request.d.did ELSE 0
             r == UdsService(w.gw, sid, sub_fn, did, request.d)
             w1 == [w EXCEPT !.gw = r.gw]
         IN  IF r.nrc # 0
               THEN Broadcast(w1, "UDS_RESPONSE",
                        Dict([sid |-> NEGATIVE_SID, request_sid |-> sid, nrc |-> r.nrc]),
                        w.gw.name)
             ELSE Broadcast(w1, "UDS_RESPONSE",
                      Dict([sid |-> sid + POSITIVE_OFFSET, sub_fn |-> sub_fn,
                            data |-> r.data]),
                      w.gw.name)

\* GatewayECU.handle_v2x_message
HandleV2x(w, bsm) ==
    IF ~IsDict(bsm) THEN Raise(w, "AttributeError")
    ELSE IF Has(bsm.d, "id") /\ bsm.d.id = "RemoteVehicle_1"
      THEN IF ~Has(bsm.d, "speed") THEN Raise(w, "TypeError")
           ELSE IF bsm.d.speed > 10000
             THEN Broadcast(w, "HMI_WARNING", Str("INTERSECTION_COLLISION_RISK"),
                            w.gw.name)
           ELSE w
    ELSE w

\* detect_intrusion with the ESC ECU on the allowlist
DetectIntrusion_EscAllowed(w, msg_id, data, sender) ==
    IF msg_id = "OTA_UPDATE" THEN HandleOtaUpdate(w, data)
    ELSE IF msg_id = "OBD_REQUEST" THEN ProcessObd(w, data)
    ELSE IF msg_id = "V2X_RX" THEN HandleV2x(w, data)
    ELSE IF msg_id = "UDS_REQUEST" THEN ProcessUds(w, data)
    ELSE IF ContainsCMD(msg_id) /\ sender \notin ALLOWED_SENDERS \cup {"ESC_ECU"}
      THEN Broadcast(w, "SECURITY_ALERT",
               Dict([type |-> "UNAUTHORIZED_ACCESS", sender |-> sender, msg |-> msg_id]),
               w.gw.name)
    ELSE w

\* GatewayECU.detect_intrusion
DetectIntrusion(w, msg_id, data, sender) ==
    IF msg_id = "OTA_UPDATE" THEN HandleOtaUpdate(w, data)
    ELSE IF msg_id = "OBD_REQUEST" THEN ProcessObd(w, data)
    ELSE IF msg_id = "V2X_RX" THEN HandleV2x(w, data)
    ELSE IF msg_id = "UDS_REQUEST" THEN ProcessUds(w, data)
    ELSE IF ContainsCMD(msg_id) /\ sender \notin ALLOWED_SENDERS
      THEN Broadcast(w, "SECURITY_ALERT",
               Dict([type |-> "UNAUTHORIZED_ACCESS", sender |-> sender, msg |-> msg_id]),
               w.gw.name)
    ELSE w

\* GatewayECU.receive_message
GatewayReceive(w, msg_id, data, sender) ==
    IF w.gw.ids_enabled THEN DetectIntrusion(w, msg_id, data, sender) ELSE w

\* --------------------------------------------------------- ChargingStation

\* ChargingStation.stop_charging
ChargerStop(w) ==
    Broadcast([w EXCEPT !.chg.voltage_supply = 0, !.chg.current_supply = 0,
                        !.chg.state = IF @ # "ERROR" THEN "CONNECTED" ELSE @],
              "CHARGER_OUTPUT", Dict([voltage |-> 0, current |-> 0]), w.chg.name)

\* ChargingStation.handle_charge_request
HandleChargeRequest(w, req) ==
    IF ~w.chg.connected THEN w
    ELSE IF ~IsDict(req) THEN Raise(w, "AttributeError")
    ELSE IF Has(req.d, "charging_enabled") /\ req.d.charging_enabled
      THEN LET v_req == IF Has(req.d, "voltage_target") THEN req.d.voltage_target ELSE 0
               i_ask == IF Has(req.d, "current_target") THEN req.d.current_target ELSE 0
               i_req == IF Mul(v_req, i_ask) > w.chg.max_power
                          THEN Div(w.chg.max_power, v_req) ELSE i_ask
           IN  Broadcast([w EXCEPT !.chg.voltage_supply = v_req,
                                   !.chg.current_supply = i_req,
                                   !.chg.state = "CHARGING"],
                         "CHARGER_OUTPUT",
                         Dict([voltage |-> v_req, current |-> i_req]), w.chg.name)
    ELSE ChargerStop(w)

\* receive_message with an emergency stop in every state
ChargerReceive_AnyState(w, msg_id, data, sender) ==
    IF msg_id = "CHARGE_REQUEST" THEN HandleChargeRequest(w, data)
    ELSE IF msg_id = "CONTACTOR_STATE" /\ ~Truthy(data)
      THEN ChargerStop([w EXCEPT !.chg.state = "ERROR"])
    ELSE w

\* ChargingStation.receive_message
ChargerReceive(w, msg_id, data, sender) ==
    IF msg_id = "CHARGE_REQUEST" THEN HandleChargeRequest(w, data)
    ELSE IF msg_id = "CONTACTOR_STATE" /\ ~Truthy(data) /\ w.chg.state = "CHARGING"
      THEN ChargerStop([w EXCEPT !.chg.state = "ERROR"])
    ELSE w

\* ChargingStation.connect_cable
ConnectCable(w) ==
    Broadcast([w EXCEPT !.chg.connected = TRUE, !.chg.state = "CONNECTED"],
              "CHARGER_STATUS",
              Dict([state |-> "CONNECTED", max_power |-> w.chg.max_power]),
              w.chg.name)

\* --------------------------------------------------------- VehicleDynamics

\* VehicleDynamics.receive_message
VehicleReceive(w, msg_id, data, sender) ==
    IF msg_id = "STEERING_CMD" THEN [w EXCEPT !.veh.steering_angle = data]
    ELSE IF msg_id = "ACCEL_CMD" THEN [w EXCEPT !.veh.throttle = data]
    ELSE IF msg_id = "BRAKE_CMD" THEN [w EXCEPT !.veh.brake = data]
    ELSE IF msg_id = "SET_ENV_MU"
      THEN IF ~IsDict(data) THEN Raise(w, "AttributeError")
           ELSE [w EXCEPT !.veh.mu_left = IF Has(data.d, "mu_l") THEN data.d.mu_l ELSE 1000,
                          !.veh.mu_right = IF Has(data.d, "mu_r") THEN data.d.mu_r ELSE 1000]
    ELSE w

\* math.tan on the steering angles the bench commands (the LKA clamps to
\* +/- 0.5 rad); x + x^3/3 elsewhere
Tan(x) ==
    IF x = 0 THEN 0
    ELSE IF x = 500 THEN 546
    ELSE IF x = -500 THEN -546
    ELSE x + Mul(Mul(x, x), x) \div 3

\* the speed update without the clamp
ClampSpeed_None(v) == v

\* if v < 0: v = 0
ClampSpeed(v) == IF v < 0 THEN 0 ELSE v

\* The speed and yaw rate after VehicleDynamics.update_physics, and the
\* current demand it broadcasts.  The position (x, y, yaw) integrates the
\* speed and is read by no node of the bench; it is not part of the state.
VehiclePhysics(veh, dt) ==
    LET v0 == veh.v
        f_drive == Mul(veh.throttle.v, 3000000)
        f_brake_l == Mul(Mul(veh.brake.v, 8000000), veh.mu_left)
        f_brake_r == Mul(Mul(veh.brake.v, 8000000), veh.mu_right)
        f_long == f_drive - (f_brake_l + f_brake_r)
        accel == Div(f_long, 1500000)
        moment_split_mu == Mul(f_brake_l - f_brake_r, 800)
        v == ClampSpeed(v0 + Mul(accel, dt))
        ideal0 == Mul(Div(v, 2500), Tan(veh.steering_angle.v))
        max_yaw_rate == Div(9800, v + 100)
        ideal == IF Abs(ideal0) > max_yaw_rate
                   THEN Mul(IF ideal0 < 0 THEN -max_yaw_rate ELSE max_yaw_rate, 1500)
                 ELSE ideal0
        avg_mu == Div(veh.mu_left + veh.mu_right, 2000)
        tau == Div(200, Max(avg_mu, 100))
        yaw_accel_steering == Div(ideal - veh.yaw_rate, tau)
        yaw_accel_disturbance == Div(moment_split_mu, 2500000)
        yaw_rate == veh.yaw_rate + Mul(yaw_accel_steering + yaw_accel_disturbance, dt)
        power_out == Mul(f_drive, v)
        power_in == IF power_out > 0 THEN Div(power_out, 850) ELSE Mul(power_out, 500)
    IN  [v |-> v, yaw_rate |-> yaw_rate,
         slip_angle |-> Mul(Mul(v, yaw_rate), 50),
         current_demand |-> Div(power_in, 400000)]

\* VehicleDynamics.update_physics
VehicleUpdate(w, dt) ==
    IF ~IsNum(w.veh.throttle) \/ ~IsNum(w.veh.brake) \/ ~IsNum(w.veh.steering_angle)
      THEN Raise(w, "TypeError")
    ELSE LET r == VehiclePhysics(w.veh, dt)
         IN  Broadcast([w EXCEPT !.veh.v = r.v, !.veh.yaw_rate = r.yaw_rate,
                                 !.veh.slip_angle = r.slip_angle],
                       "LOAD_CURRENT", Num(r.current_demand), w.veh.name)

\* VehicleDynamics.publish_sensor_data
\* (each broadcast's result is bound once:  CHOOSE r \in {e : x \in {v}} : TRUE
\* is e with x standing for the value v)
VehiclePublish(w) ==
    LET n == w.veh.name
        Accel(w4) ==
            LET accel_x == Div(w4.veh.v - (IF w4.veh.has_prev_v THEN w4.veh.prev_v
                                           ELSE w4.veh.v), 50)
            IN  Broadcast([w4 EXCEPT !.veh.prev_v = w4.veh.v, !.veh.has_prev_v = TRUE],
                          "ACCEL_X", Num(accel_x), n)
        Gps(w3) ==
            CHOOSE r \in {Then(w4, Accel(w4)) :
                w4 \in {Broadcast(w3, "GPS_POS", Dict([x |-> 0, y |-> 0]), n)}} : TRUE
        Lat(w2) ==
            CHOOSE r \in {Then(w3, Gps(w3)) :
                w3 \in {Broadcast(w2, "LATERAL_ACCEL",
                                  Num(Mul(w2.veh.v, w2.veh.yaw_rate)), n)}} : TRUE
        Yaw(w1) ==
            CHOOSE r \in {Then(w2, Lat(w2)) :
                w2 \in {Broadcast(w1, "YAW_RATE", Num(w1.veh.yaw_rate), n)}} : TRUE
    IN  CHOOSE r \in {Then(w1, Yaw(w1)) :
            w1 \in {Broadcast(w, "WHEEL_SPEED", Num(w.veh.v), n)}} : TRUE

\* ------------------------------------------------------------ BatteryPlant

\* receive_message of a battery that reports its current on every CHARGER_OUTPUT
BatteryReceive_ReportOnOutput(w, msg_id, data, sender) ==
    IF msg_id = "CHARGER_OUTPUT" THEN Broadcast(w, "HV_CURRENT", w.bat.current, w.bat.name)
    ELSE IF msg_id = "LOAD_CURRENT" THEN [w EXCEPT !.bat.current = data]
    ELSE IF msg_id = "SET_ENV_THERMAL"
      THEN IF ~IsDict(data) THEN Raise(w, "AttributeError")
           ELSE [w EXCEPT !.bat.ambient_temp =
                     IF Has(data.d, "ambient_temp") THEN data.d.ambient_temp ELSE 25000]
    ELSE IF msg_id = "SET_SENSOR_DRIFT"
      THEN IF ~IsDict(data) THEN Raise(w, "AttributeError")
           ELSE [w EXCEPT
                   !.bat.drift_voltage = IF Has(data.d, "voltage") THEN data.d.voltage ELSE 0,
                   !.bat.drift_current = IF Has(data.d, "current") THEN data.d.current ELSE 0,
                   !.bat.drift_temp = IF Has(data.d, "temp") THEN data.d.temp ELSE 0]
    ELSE w

\* BatteryPlant.receive_message
BatteryReceive(w, msg_id, data, sender) ==
    IF msg_id = "LOAD_CURRENT" THEN [w EXCEPT !.bat.current = data]
    ELSE IF msg_id = "SET_ENV_THERMAL"
      THEN IF ~IsDict(data) THEN Raise(w, "AttributeError")
           ELSE [w EXCEPT !.bat.ambient_temp =
                     IF Has(data.d, "ambient_temp") THEN data.d.ambient_temp ELSE 25000]
    ELSE IF msg_id = "SET_SENSOR_DRIFT"
      THEN IF ~IsDict(data) THEN Raise(w, "AttributeError")
           ELSE [w EXCEPT
                   !.bat.drift_voltage = IF Has(data.d, "voltage") THEN data.d.voltage ELSE 0,
                   !.bat.drift_current = IF Has(data.d, "current") THEN data.d.current ELSE 0,
                   !.bat.drift_temp = IF Has(data.d, "temp") THEN data.d.temp ELSE 0]
    ELSE w

\* BatteryPlant.update_physics
BatteryUpdate(w, dt) ==
    IF ~IsNum(w.bat.current) THEN Raise(w, "TypeError")
    ELSE LET i == w.bat.current.v
             energy_change_kwh == Mul(Mul(w.bat.voltage, i), dt) \div 3600000
             heat_gen == Mul(Mul(i, i), 50)
             cooling == Mul(w.bat.temperature - w.bat.ambient_temp, 100)
             temp_change == Mul(Mul(heat_gen - cooling, dt), 10)
         IN  [w EXCEPT !.bat.current_capacity = @ - energy_change_kwh,
                       !.bat.temperature = @ + temp_change,
                       !.bat.voltage = 400000 - Mul(i, 50)]

\* BatteryPlant.publish_sensor_data
BatteryPublish(w) ==
    IF ~IsNum(w.bat.current) THEN Raise(w, "TypeError")
    ELSE LET n == w.bat.name
             w1 == Broadcast(w, "HV_VOLTAGE", Num(w.bat.voltage + w.bat.drift_voltage), n)
             w2 == Then(w1, Broadcast(w1, "HV_CURRENT",
                                      Num(w1.bat.current.v + w1.bat.drift_current), n))
         IN  Then(w2, Broadcast(w2, "HV_TEMP",
                                Num(w2.bat.temperature + w2.bat.drift_temp), n))

\* ---------------------------------------------------------- RadarGenerator

\* list.remove(x): the list without its first element equal to x
RECURSIVE RemoveFirst(_, _)
RemoveFirst(s, x) ==
    IF s = <<>> THEN s
    ELSE IF Head(s) = x THEN Tail(s)
    ELSE <<Head(s)>> \o RemoveFirst(Tail(s), x)

\* The for loop of RadarGenerator.update_physics at list index i: the loop
\* reads self.objects by index while the body removes from it.
RECURSIVE RadarUpdateFrom(_, _, _)
RadarUpdateFrom(objects, i, dt) ==
    IF i > Len(objects) THEN objects
    ELSE LET o == objects[i]
             moved == [o EXCEPT !.dist = @ + Mul(o.rel_speed, dt),
                                !.lat_pos = @ + Mul(o.lat_speed, dt)]
             objs == [objects EXCEPT ![i] = moved]
         IN  IF moved.dist < -10000 \/ moved.dist > 200000
               THEN RadarUpdateFrom(RemoveFirst(objs, moved), i + 1, dt)
             ELSE RadarUpdateFrom(objs, i + 1, dt)

\* RadarGenerator.update_physics
RadarUpdate(w, dt) == [w EXCEPT !.radar.objects = RadarUpdateFrom(@, 1, dt)]

\* RadarGenerator.publish_sensor_data
RadarPublish(w) == Broadcast(w, "RADAR_OBJECTS", List(w.radar.objects), w.radar.name)

\* RadarGenerator.add_object
AddObject(w, obj_id, dist, rel_speed, lateral_pos, lateral_speed) ==
    [w EXCEPT !.radar.objects =
         Append(@, [id |-> obj_id, dist |-> dist, rel_speed |-> rel_speed,
                    lat_pos |-> lateral_pos, lat_speed |-> lateral_speed])]

\* ------------------------------------------------------------------ EscECU

\* EscECU.activate_esc
ActivateEsc(w) ==
    LET w1 == Broadcast([w EXCEPT !.esc.esc_active = TRUE], "ESC_STATUS",
                        Str("ACTIVE"), w.esc.name)
    IN  Then(w1, Broadcast(w1, "BRAKE_CMD", Num(800), w1.esc.name))

\* EscECU.deactivate_esc
DeactivateEsc(w) ==
    LET w1 == Broadcast([w EXCEPT !.esc.esc_active = FALSE], "ESC_STATUS",
                        Str("INACTIVE"), w.esc.name)
    IN  Then(w1, Broadcast(w1, "BRAKE_CMD", Num(0), w1.esc.name))

\* EscECU.check_stability: abs(yaw_rate) > 0.5
CheckStability(w, yaw_rate) ==
    IF ~IsNum(yaw_rate) /\ yaw_rate.t # "bool" THEN Raise(w, "TypeError")
    ELSE IF Abs(Float(yaw_rate)) > 500
      THEN IF ~w.esc.esc_active THEN ActivateEsc(w) ELSE w
    ELSE IF w.esc.esc_active THEN DeactivateEsc(w) ELSE w

\* EscECU.receive_message
EscReceive(w, msg_id, data, sender) ==
    IF msg_id = "YAW_RATE" THEN CheckStability(w, data) ELSE w

\* --------------------------------------------------------------- AirbagECU

\* AirbagECU.deploy_safety_systems
DeploySafetySystems(w) ==
    LET n == w.airbag.name
        w1 == Broadcast([w EXCEPT !.airbag.airbags_deployed = TRUE,
                                  !.airbag.pretensioners_deployed = TRUE],
                        "DEPLOY_AIRBAG", Bool(TRUE), n)
        w2 == Then(w1, Broadcast(w1, "DEPLOY_SEATBELT", Bool(TRUE), n))
    IN  Then(w2, Broadcast(w2, "POST_CRASH_ALERT",
                           Dict([loc |-> "GPS_DATA_HERE"]), n))

\* AirbagECU.check_crash: crash_threshold_g = -5.0
CheckCrash(w, accel_g) ==
    IF accel_g < CRASH_THRESHOLD_G /\ ~w.airbag.airbags_deployed
      THEN DeploySafetySystems(w)
    ELSE w

\* AirbagECU.receive_message: accel_g = data / 9.81
AirbagReceive(w, msg_id, data, sender) ==
    IF msg_id = "ACCEL_X"
      THEN IF ~IsNum(data) /\ data.t # "bool" THEN Raise(w, "TypeError")
           ELSE CheckCrash(w, Div(Float(data), 9810))
    ELSE w

\* ----------------------------------------------------------------- BodyECU

\* BodyECU.receive_message
BodyReceive(w, msg_id, data, sender) ==
    IF msg_id = "WHEEL_SPEED"
      THEN IF data.t = "str" THEN Raise(w, "ValueError")
           ELSE IF ~IsNum(data) /\ data.t # "bool" THEN Raise(w, "TypeError")
           ELSE LET increment == Mul(Abs(Float(data)), w.body.dt)
                IN  [w EXCEPT !.body.total_mileage = @ + increment,
                              !.body.trip_meter = @ + increment]
    ELSE IF msg_id = "RESET_TRIP" THEN [w EXCEPT !.body.trip_meter = 0]
    ELSE w

\* BodyECU.step
BodyStep(w, dt) == [w EXCEPT !.body.dt = dt]

\* BodyECU.update
BodyUpdate(w) ==
    Broadcast(w, "ODOMETER_DATA",
              Dict([total_km |-> Div(w.body.total_mileage, 1000000),
                    trip_km |-> Div(w.body.trip_meter, 1000000)]),
              w.body.name)

\* load_from_nvm that restores the odometer only
LoadFromNvm_TotalOnly(w) ==
    IF w.nvm.kind = "json" /\ IsDict(w.nvm.value)
      THEN LET data == w.nvm.value.d
           IN  [w EXCEPT !.body.total_mileage =
                             IF Has(data, "total_mileage") THEN data.total_mileage ELSE 0]
    ELSE w

\* BodyECU.load_from_nvm: the file is absent, or json.load raises on it, or
\* it holds a JSON value; data.get raises on a value that is not an object,
\* and every exception is swallowed
LoadFromNvm(w) ==
    IF w.nvm.kind = "json" /\ IsDict(w.nvm.value)
      THEN LET data == w.nvm.value.d
           IN  [w EXCEPT !.body.total_mileage =
                             IF Has(data, "total_mileage") THEN data.total_mileage ELSE 0,
                         !.body.trip_meter =
                             IF Has(data, "trip_meter") THEN data.trip_meter ELSE 0]
    ELSE w

\* BodyECU.save_to_nvm
SaveToNvm(w) ==
    [w EXCEPT !.nvm = [kind |-> "json",
                       value |-> Dict([total_mileage |-> w.body.total_mileage,
                                       trip_meter |-> w.body.trip_meter])]]

\* -------------------------------------------------------------- VirtualBus

\* node.receive_message(msg_id, data, sender), by the class of the node
Receive(w, cls, msg_id, data, sender) ==
    CASE cls = "AdasECU" -> AdasReceive(w, msg_id, data, sender)
      [] cls = "BmsECU" -> BmsReceive(w, msg_id, data, sender)
      [] cls = "GatewayECU" -> GatewayReceive(w, msg_id, data, sender)
      [] cls = "VehicleDynamics" -> VehicleReceive(w, msg_id, data, sender)
      [] cls = "BatteryPlant" -> BatteryReceive(w, msg_id, data, sender)
      [] cls = "ChargingStation" -> ChargerReceive(w, msg_id, data, sender)
      [] cls = "EscECU" -> EscReceive(w, msg_id, data, sender)
      [] cls = "AirbagECU" -> AirbagReceive(w, msg_id, data, sender)
      [] cls = "BodyECU" -> BodyReceive(w, msg_id, data, sender)
      [] OTHER -> w

\* if node.name != sender
Addressed(node, sender) == node.name # sender

\* The delivery loop taken from the last registered node to the first
Deliver_Reverse(w, i, k, msg_id, data, sender) ==
    LET DeliverDown[n \in 0..Len(w.nodes)] ==
            IF n = Len(w.nodes) THEN w
            ELSE LET v == DeliverDown[n + 1]
                 IN  IF Raised(v) \/ ~Addressed(v.nodes[n + 1], sender) THEN v
                     ELSE LET v1 == [v EXCEPT !.obs.rxs =
                                        Append(@, [node |-> n + 1, bc |-> k, id |-> msg_id,
                                                   data |-> data, sender |-> sender]),
                                               !.obs.cur = Len(v.obs.rxs) + 1]
                              v2 == Receive(v1, v.nodes[n + 1].cls, msg_id, data, sender)
                          IN  [v2 EXCEPT !.obs.cur = v.obs.cur,
                                         !.obs.thrown = IF Raised(v2) /\ @ = 0
                                                          THEN Len(v.obs.rxs) + 1 ELSE @]
    IN  DeliverDown[i - 1]

\* The for loop of VirtualBus.broadcast from registry index i on, for the
\* broadcast that is entry k of obs.emits.  A receiver that raises ends the
\* loop; obs.thrown is the entry of obs.rxs of the first receive_message of
\* the call that raised (0: none).
RECURSIVE Deliver(_, _, _, _, _, _)
Deliver(w, i, k, msg_id, data, sender) ==
    IF Raised(w) \/ i > Len(w.nodes) THEN w
    ELSE IF Addressed(w.nodes[i], sender)
      THEN LET w1 == [w EXCEPT !.obs.rxs =
                          Append(@, [node |-> i, bc |-> k, id |-> msg_id,
                                     data |-> data, sender |-> sender]),
                                   !.obs.cur = Len(w.obs.rxs) + 1]
               w2 == Receive(w1, w.nodes[i].cls, msg_id, data, sender)
           IN  Deliver([w2 EXCEPT !.obs.cur = w.obs.cur,
                                  !.obs.thrown = IF Raised(w2) /\ @ = 0
                                                   THEN Len(w.obs.rxs) + 1 ELSE @],
                       i + 1, k, msg_id, data, sender)
    ELSE Deliver(w, i + 1, k, msg_id, data, sender)

\* self.message_log.append({'id': msg_id, 'data': data, 'sender': sender})
LogAppend(log, msg_id, data, sender) ==
    DequeAppend(log, [id |-> msg_id, data |-> data, sender |-> sender])

\* VirtualBus.broadcast.  obs.emits records the call as it was made, with
\* the entry of obs.rxs (0: none) of the receive_message that made it.
Broadcast(w, msg_id, data, sender) ==
    LET p == IF w.inj.attached THEN Process(w.inj.active_faults, msg_id, data)
             ELSE [id |-> msg_id, data |-> data, drop |-> FALSE]
        k == Len(w.obs.emits) + 1
        w1 == [w EXCEPT !.obs.emits =
                   Append(@, [id |-> msg_id, data |-> data, sender |-> sender,
                              drop |-> p.drop, sent |-> p.data,
                              parent |-> w.obs.cur])]
    IN  IF p.drop THEN w1
        ELSE Deliver([w1 EXCEPT !.log = LogAppend(@, p.id, p.data, sender)],
                     1, k, p.id, p.data, sender)

\* -------------------------------------------------------- SimulationEngine

\* plant.update_physics(dt), by the class of the plant
UpdatePhysics(w, cls, dt) ==
    CASE cls = "VehicleDynamics" -> VehicleUpdate(w, dt)
      [] cls = "BatteryPlant" -> BatteryUpdate(w, dt)
      [] cls = "RadarGenerator" -> RadarUpdate(w, dt)
      [] OTHER -> w

\* plant.publish_sensor_data(), by the class of the plant
PublishSensorData(w, cls) ==
    CASE cls = "VehicleDynamics" -> VehiclePublish(w)
      [] cls = "BatteryPlant" -> BatteryPublish(w)
      [] cls = "RadarGenerator" -> RadarPublish(w)
      [] OTHER -> w

\* ecu.step(dt), by the class of the ECU
EcuStep(w, cls, dt) ==
    CASE cls = "BmsECU" -> BmsStep(w, dt)
      [] cls = "BodyECU" -> BodyStep(w, dt)
      [] OTHER -> w

\* obs.sched records the calls the engine makes, in order
Sched(w, what, cls) == [w EXCEPT !.obs.sched = Append(@, <<what, cls>>)]

\* The body of the plant loop of SimulationEngine.step for one plant
StepPlant(w, cls) ==
    LET w1 == UpdatePhysics(Sched(w, "update_physics", cls), cls, w.eng.dt)
    IN  Then(w1, PublishSensorData(Sched(w1, "publish_sensor_data", cls), cls))

\* The plant loop of SimulationEngine.step from plant i on
RECURSIVE StepPlants(_, _)
StepPlants(w, i) ==
    IF Raised(w) \/ i > Len(w.eng.plants) THEN w
    ELSE StepPlants(StepPlant(w, w.eng.plants[i]), i + 1)

\* The ECU loop of SimulationEngine.step from ECU i on
RECURSIVE StepEcus(_, _)
StepEcus(w, i) ==
    IF Raised(w) \/ i > Len(w.eng.ecus) THEN w
    ELSE StepEcus(EcuStep(Sched(w, "step", w.eng.ecus[i]), w.eng.ecus[i], w.eng.dt),
                  i + 1)

\* SimulationEngine.step
EngineStep(w) == StepEcus(StepPlants(w, 1), 1)

\* The position of a call of SimulationEngine.run: whether the call is in
\* progress, its argument, the locals steps and i, and the tick during
\* which stop() was called (0: never).
NoRun == [active |-> FALSE, duration |-> 0, steps |-> 0, i |-> 0, stopped_at |-> 0]

\* int(duration / self.dt), rounding toward zero
RunSteps(duration, dt) ==
    IF duration >= 0 THEN duration \div dt ELSE -((-duration) \div dt)

\* SimulationEngine.run up to the loop
RunEnter(w, duration) ==
    [w EXCEPT !.eng.running = TRUE,
              !.eng.loop = [active |-> TRUE, duration |-> duration,
                            steps |-> RunSteps(duration, w.eng.dt), i |-> 0,
                            stopped_at |-> 0]]

\* the loop of run goes on with iteration i + 1 when the flag is not set
RunLoopGoesOn_Mut(eng) == eng.loop.active /\ eng.loop.i < eng.loop.steps
RunLoopGoesOn(eng) ==
    eng.loop.active /\ eng.loop.i < eng.loop.steps /\ eng.running

\* SimulationEngine.stop
EngineStop(w) == [w EXCEPT !.eng.running = FALSE]

\* one iteration of the loop of run: self.step(), during which a node
\* callback may call stop()
RunIteration(w, stop) ==
    CHOOSE r \in {
        [(IF stop /\ ~Raised(w1)
            THEN [EngineStop(w1) EXCEPT !.eng.loop.stopped_at = w.eng.loop.i + 1]
          ELSE w1) EXCEPT !.eng.loop.i = @ + 1]
        : w1 \in {EngineStep(w)} } : TRUE

\* SimulationEngine.run returns
RunReturn(w) == [w EXCEPT !.eng.loop.active = FALSE]

\* SimulationEngine.add_plant, SimulationEngine.add_ecu
AddPlant(w, cls) == [w EXCEPT !.eng.plants = Append(@, cls)]
AddEcu(w, cls) == [w EXCEPT !.eng.ecus = Append(@, cls)]

\* ------------------------------------------------------------ constructors

\* BaseECU.__init__ and BasePlant.__init__: self.name = name; bus.register(self)
BaseInit(w, cls, name) == Register(w, [cls |-> cls, name |-> name])

\* AdasECU.__init__
NewAdas(w, name) ==
    BaseInit([w EXCEPT !.adas = [name |-> name, aeb_triggered |-> FALSE]],
             "AdasECU", name)

\* BmsECU.__init__
NewBms(w, name) ==
    BaseInit([w EXCEPT !.bms = [name |-> name, contactors_closed |-> FALSE,
                                soc_estimate |-> 100000, charging_state |-> "IDLE",
                                target_soc |-> TARGET_SOC]],
             "BmsECU", name)

\* GatewayECU.__init__
NewGateway(w, name) ==
    BaseInit([w EXCEPT !.gw = [name |-> name, ids_enabled |-> TRUE,
                               current_version |-> "1.0", diagnostic_session |-> 1,
                               security_seed |-> 0, security_unlocked |-> FALSE]],
             "GatewayECU", name)

\* VehicleDynamics.__init__: BasePlant.__init__ registers the plant, and the
\* constructor registers it again ("Subscribe to actuator commands")
NewVehicle(w, name) ==
    Register(
        BaseInit([w EXCEPT !.veh = [name |-> name, v |-> 0, yaw_rate |-> 0,
                                    slip_angle |-> 0, has_prev_v |-> FALSE, prev_v |-> 0,
                                    steering_angle |-> Num(0), throttle |-> Num(0),
                                    brake |-> Num(0), mu_left |-> 1000,
                                    mu_right |-> 1000]],
                 "VehicleDynamics", name),
        [cls |-> "VehicleDynamics", name |-> name])

\* BatteryPlant.__init__
NewBattery(w, name) ==
    BaseInit([w EXCEPT !.bat = [name |-> name, current_capacity |-> 60000,
                                voltage |-> 400000, current |-> Num(0),
                                temperature |-> 25000, ambient_temp |-> 25000,
                                drift_voltage |-> 0, drift_current |-> 0,
                                drift_temp |-> 0]],
             "BatteryPlant", name)

\* ChargingStation.__init__: registered by BasePlant.__init__ and again by
\* the constructor ("Subscribe to BMS Charging Requests")
NewCharger(w, name) ==
    Register(
        BaseInit([w EXCEPT !.chg = [name |-> name, connected |-> FALSE,
                                    state |-> "DISCONNECTED", voltage_supply |-> 0,
                                    current_supply |-> 0, max_power |-> 150000000]],
                 "ChargingStation", name),
        [cls |-> "ChargingStation", name |-> name])

\* EscECU.__init__
NewEsc(w, name) ==
    BaseInit([w EXCEPT !.esc = [name |-> name, esc_active |-> FALSE]], "EscECU", name)

\* AirbagECU.__init__
NewAirbag(w, name) ==
    BaseInit([w EXCEPT !.airbag = [name |-> name, airbags_deployed |-> FALSE,
                                   pretensioners_deployed |-> FALSE]],
             "AirbagECU", name)

\* BodyECU.__init__: the defaults, then load_from_nvm
NewBody(w, name) ==
    LoadFromNvm(
        BaseInit([w EXCEPT !.body = [name |-> name, total_mileage |-> 0,
                                     trip_meter |-> 0, dt |-> 50]],
                 "BodyECU", name))

\* RadarGenerator.__init__
NewRadar(w, name) ==
    BaseInit([w EXCEPT !.radar = [name |-> name, objects |-> <<>>]],
             "RadarGenerator", name)

\* SimulationEngine.__init__ with VirtualBus.__init__; the node objects do
\* not exist yet (their fields hold the class defaults and an empty name).
NewEngine(time_step) ==
    [nodes |-> <<>>, log |-> <<>>,
     inj |-> [attached |-> FALSE, active_faults |-> <<>>],
     eng |-> [dt |-> time_step, plants |-> <<>>, ecus |-> <<>>, running |-> FALSE,
              loop |-> NoRun],
     adas |-> [name |-> "", aeb_triggered |-> FALSE],
     bms |-> [name |-> "", contactors_closed |-> FALSE, soc_estimate |-> 100000,
              charging_state |-> "IDLE", target_soc |-> TARGET_SOC],
     gw |-> [name |-> "", ids_enabled |-> TRUE, current_version |-> "1.0",
             diagnostic_session |-> 1, security_seed |-> 0,
             security_unlocked |-> FALSE],
     veh |-> [name |-> "", v |-> 0, yaw_rate |-> 0, slip_angle |-> 0,
              has_prev_v |-> FALSE, prev_v |-> 0, steering_angle |-> Num(0),
              throttle |-> Num(0), brake |-> Num(0), mu_left |-> 1000,
              mu_right |-> 1000],
     bat |-> [name |-> "", current_capacity |-> 60000, voltage |-> 400000,
              current |-> Num(0), temperature |-> 25000, ambient_temp |-> 25000,
              drift_voltage |-> 0, drift_current |-> 0, drift_temp |-> 0],
     chg |-> [name |-> "", connected |-> FALSE, state |-> "DISCONNECTED",
              voltage_supply |-> 0, current_supply |-> 0, max_power |-> 150000000],
     radar |-> [name |-> "", objects |-> <<>>],
     esc |-> [name |-> "", esc_active |-> FALSE],
     airbag |-> [name |-> "", airbags_deployed |-> FALSE,
                 pretensioners_deployed |-> FALSE],
     body |-> [name |-> "", total_mileage |-> 0, trip_meter |-> 0, dt |-> 50],
     nvm |-> NoFile,
     exc |-> "none", obs |-> NoObs]

\* VirtualBus.set_fault_injector(FaultInjector())
SetFaultInjector(w) == [w EXCEPT !.inj = [attached |-> TRUE, active_faults |-> <<>>]]

\* ---------------------------------------------------------- test fixtures

\* tests/integration_test.py, run_integration_test: three plants, three ECUs
\* and an injector
IntegrationSetup ==
    LET w1 == NewRadar(NewBattery(NewVehicle(NewEngine(100), "VehicleDynamics"),
                                  "BatteryPlant"), "RadarGen")
        w2 == AddPlant(AddPlant(AddPlant(w1, "VehicleDynamics"), "BatteryPlant"),
                       "RadarGenerator")
        w3 == NewGateway(NewAdas(NewBms(w2, "BMS_ECU"), "ADAS_ECU"), "Gateway")
        w4 == AddEcu(AddEcu(AddEcu(w3, "BmsECU"), "AdasECU"), "GatewayECU")
    IN  SetFaultInjector(w4)

\* tests/test_charging.py, charging_setup
ChargingSetup ==
    LET w1 == NewBms(NewCharger(NewBattery(NewEngine(100), "BatteryPlant"),
                                "DC_Charger"), "BMS_ECU")
    IN  AddEcu(AddPlant(AddPlant(w1, "BatteryPlant"), "ChargingStation"), "BmsECU")

\* tests/test_environmental.py, env_setup
EnvSetup ==
    LET w1 == NewBms(NewBattery(NewEngine(1000), "BigBattery"), "BMS_ECU")
    IN  AddEcu(AddPlant(w1, "BatteryPlant"), "BmsECU")

\* tests/test_dynamics.py, dynamics_setup
DynamicsSetup ==
    AddPlant(NewVehicle(NewEngine(50), "VehicleDynamics"), "VehicleDynamics")

\* tests/test_safety.py, safety_setup
SafetySetup ==
    LET w1 == NewAdas(NewRadar(NewVehicle(NewEngine(100), "VehicleDynamics"),
                               "RadarGen"), "ADAS_ECU")
    IN  SetFaultInjector(
            AddEcu(AddPlant(AddPlant(w1, "VehicleDynamics"), "RadarGenerator"),
                   "AdasECU"))

\* tests/test_scenarios.py, sim_setup
ScenarioSetup ==
    LET w1 == NewAdas(NewRadar(NewVehicle(NewEngine(100), "VehicleDynamics"),
                               "RadarGen"), "ADAS_ECU")
    IN  AddEcu(AddPlant(AddPlant(w1, "VehicleDynamics"), "RadarGenerator"), "AdasECU")

\* tests/test_diagnostics.py, uds_setup
UdsSetup == AddEcu(NewGateway(NewEngine(100), "Gateway"), "GatewayECU")

\* tests/test_cybersecurity.py, ota_setup
OtaSetup == AddEcu(NewGateway(NewEngine(100), "Gateway"), "GatewayECU")

\* tests/test_diagnostics.py, test_security_access: the gateway after the
\* requests of the test (seed, invalid key, valid key)
SecurityAccessDone ==
    LET Req(w, r) == Broadcast(w, "UDS_REQUEST", Dict(r), "TestHarness")
        w1 == Req(UdsSetup, [sid |-> 39, sub_fn |-> 1])
        w2 == Req(w1, [sid |-> 39, sub_fn |-> 2, data |-> SEED_VALUE + 999])
        w3 == Req(w2, [sid |-> 39, sub_fn |-> 2, data |-> SEED_VALUE + 1])
    IN  [w3 EXCEPT !.obs = NoObs]

\* tests/test_scenarios.py, test_moose_test_esc_activation: the vehicle and
\* the ESC ECU at dt = 0.05, with the gateway listening on the same bus
IdsSetup ==
    LET w1 == NewGateway(NewEsc(NewVehicle(NewEngine(50), "VehicleDynamics"),
                                "ESC_ECU"), "Gateway")
    IN  AddEcu(AddEcu(AddPlant(w1, "VehicleDynamics"), "EscECU"), "GatewayECU")

\* tests/test_odometer.py, odo_setup, for an engine time step and a file
\* at the storage path
OdoSetup(time_step, file) ==
    LET w1 == NewBody(NewVehicle([NewEngine(time_step) EXCEPT !.nvm = file],
                                 "VehicleDynamics"), "BodyECU")
    IN  AddEcu(AddPlant(w1, "VehicleDynamics"), "BodyECU")

\* tests/test_passive_safety.py, safety_setup, for an engine time step
AirbagSetup(time_step) ==
    LET w1 == NewAirbag(NewVehicle(NewEngine(time_step), "VehicleDynamics"),
                        "AirbagECU")
    IN  AddEcu(AddPlant(w1, "VehicleDynamics"), "AirbagECU")

\* tests/test_ai_safety.py, sotif_setup: the vehicle and the AdasECU; the
\* CAMERA_LANE messages of the camera are the harness's broadcasts
LkaSetup ==
    LET w1 == NewAdas(NewVehicle(NewEngine(100), "VehicleDynamics"), "ADAS_ECU")
    IN  AddEcu(AddPlant(w1, "VehicleDynamics"), "AdasECU")

\* tests/test_scenarios.py: the bench of sim_setup (vehicle, radar, AdasECU)
\* with the EscECU of test_moose_test_stability on the same bus
ArbSetup ==
    LET w1 == NewEsc(NewAdas(NewRadar(NewVehicle(NewEngine(100), "VehicleDynamics"),
                                      "RadarGen"), "ADAS_ECU"), "ESC_ECU")
    IN  AddEcu(AddEcu(AddPlant(AddPlant(w1, "VehicleDynamics"), "RadarGenerator"),
                      "AdasECU"), "EscECU")

\* tests/integration_test.py, run_integration_test, extended by
\* the ChargingStation and the ESC, airbag and body ECUs: one node of every
\* class on one bus
FullSetup ==
    LET w1 == NewCharger(NewRadar(NewBattery(NewVehicle(NewEngine(100),
                  "VehicleDynamics"), "BatteryPlant"), "RadarGen"), "DC_Charger")
        w2 == AddPlant(AddPlant(AddPlant(AddPlant(w1, "VehicleDynamics"), "BatteryPlant"),
                                "RadarGenerator"), "ChargingStation")
        w3 == NewGateway(NewAdas(NewBms(w2, "BMS_ECU"), "ADAS_ECU"), "Gateway")
        w4 == NewBody(NewAirbag(NewEsc(w3, "ESC_ECU"), "AirbagECU"), "BodyECU")
    IN  AddEcu(AddEcu(AddEcu(AddEcu(AddEcu(AddEcu(w4, "BmsECU"), "AdasECU"),
                                    "GatewayECU"), "EscECU"), "AirbagECU"), "BodyECU")

\* tests/test_known_failures.py, setup_sim
KnownFailuresSetup ==
    LET w1 == NewGateway(NewVehicle(NewEngine(100), "VehicleDynamics"), "Gateway")
    IN  AddEcu(AddPlant(w1, "VehicleDynamics"), "GatewayECU")

\* ------------------------------------------------------- harness actions

\* the variables take the fields of world w
Commit(w) ==
    /\ nodes' = w.nodes
    /\ message_log' = w.log
    /\ injector' = w.inj
    /\ engine' = w.eng
    /\ adas' = w.adas
    /\ bms' = w.bms
    /\ gateway' = w.gw
    /\ vehicle' = w.veh
    /\ battery' = w.bat
    /\ charger' = w.chg
    /\ radar' = w.radar
    /\ esc' = w.esc
    /\ airbag' = w.airbag
    /\ body' = w.body
    /\ nvm' = w.nvm
    /\ exc' = w.exc
    /\ obs' = w.obs

\* the state a fixture returns
Start(w) ==
    /\ nodes = w.nodes
    /\ message_log = w.log
    /\ injector = w.inj
    /\ engine = w.eng
    /\ adas = w.adas
    /\ bms = w.bms
    /\ gateway = w.gw
    /\ vehicle = w.veh
    /\ battery = w.bat
    /\ charger = w.chg
    /\ radar = w.radar
    /\ esc = w.esc
    /\ airbag = w.airbag
    /\ body = w.body
    /\ nvm = w.nvm
    /\ exc = w.exc
    /\ obs = w.obs
    /\ ticks = 0
    /\ calls = 0

\* the world at the start of a harness call
Begin == [World EXCEPT !.obs = NoObs]

\* A test that got an exception from a call has ended.
CanTick(max) == exc = "none" /\ ticks < max
CanCall(max) == exc = "none" /\ calls < max

\* sim.step()
Tick(max) ==
    /\ CanTick(max)
    /\ \E w \in {EngineStep(Begin)} : Commit(w)
    /\ ticks' = ticks + 1
    /\ calls' = calls

\* for _ in range(n): sim.step()
RECURSIVE EngineSteps(_, _)
EngineSteps(w, n) ==
    IF n = 0 THEN w
    ELSE CHOOSE r \in {(IF Raised(w1) THEN w1 ELSE EngineSteps(w1, n - 1)) :
             w1 \in {EngineStep(w)}} : TRUE

HarnessDrive(max, n) ==
    /\ exc = "none" /\ ticks + n <= max
    /\ \E w \in {EngineSteps(Begin, n)} : Commit(w)
    /\ ticks' = ticks + n
    /\ calls' = calls

\* body.save_to_nvm()
HarnessSave(max) ==
    /\ CanCall(max)
    /\ \E w \in {Sched(SaveToNvm(Begin), "save_to_nvm", "BodyECU")} : Commit(w)
    /\ calls' = calls + 1
    /\ ticks' = ticks

\* sim2 = SimulationEngine(time_step); body2 = BodyECU(name, sim2.bus,
\* storage_path = the path in use); sim2.add_ecu(body2)
HarnessRestart(max, time_step, name) ==
    /\ CanCall(max)
    /\ \E w \in {Sched(AddEcu(NewBody([NewEngine(time_step) EXCEPT !.nvm = nvm], name),
                               "BodyECU"),
                        "__init__", "BodyECU")} : Commit(w)
    /\ calls' = calls + 1
    /\ ticks' = ticks

\* sim.bus.broadcast(msg_id, data, sender=...) called by a test
HarnessBroadcast(max, msg_id, data, sender) ==
    /\ CanCall(max)
    /\ \E w \in {Broadcast(Begin, msg_id, data, sender)} : Commit(w)
    /\ calls' = calls + 1
    /\ ticks' = ticks

\* injector.inject(fault_type, target_id)
HarnessInject(max, fault_type, target_id) ==
    /\ CanCall(max)
    /\ injector.attached
    /\ Commit([Begin EXCEPT !.inj = Inject(@, fault_type, target_id)])
    /\ calls' = calls + 1
    /\ ticks' = ticks

\* injector.inject(fault_type, target_id, duration)
HarnessInjectFor(max, fault_type, target_id, duration) ==
    /\ CanCall(max)
    /\ injector.attached
    /\ Commit([Begin EXCEPT !.inj = InjectFor(@, fault_type, target_id, duration)])
    /\ calls' = calls + 1
    /\ ticks' = ticks

\* sim.bus.set_fault_injector(FaultInjector()): a new, empty injector
HarnessSetFaultInjector(max) ==
    /\ CanCall(max)
    /\ Commit([SetFaultInjector(Begin) EXCEPT
                  !.obs.sched = <<<<"set_fault_injector", "VirtualBus">>>>])
    /\ calls' = calls + 1
    /\ ticks' = ticks

\* injector.process(msg_id, data, sender) called by a test; obs.ret holds
\* the arguments and the tuple returned
HarnessProcess(max, msg_id, data, sender) ==
    /\ CanCall(max)
    /\ injector.attached
    /\ Commit([Begin EXCEPT !.obs.ret =
                   <<[msg_id |-> msg_id, data |-> data, sender |-> sender,
                      out |-> Process(injector.active_faults, msg_id, data)]>>])
    /\ calls' = calls + 1
    /\ ticks' = ticks

\* charger.connect_cable()
HarnessConnectCable(max) ==
    /\ CanCall(max)
    /\ \E i \in DOMAIN nodes : nodes[i].cls = "ChargingStation"
    /\ \E w \in {ConnectCable(Begin)} : Commit(w)
    /\ calls' = calls + 1
    /\ ticks' = ticks

\* radar.add_object(obj_id, dist, rel_speed, lateral_pos, lateral_speed)
HarnessAddObject(max, obj_id, dist, rel_speed, lateral_pos, lateral_speed) ==
    /\ CanCall(max)
    /\ \E i \in DOMAIN nodes : nodes[i].cls = "RadarGenerator"
    /\ \E w \in {AddObject(Begin, obj_id, dist, rel_speed, lateral_pos, lateral_speed)} :
           Commit(w)
    /\ calls' = calls + 1
    /\ ticks' = ticks

\* bms.soc_estimate = soc written by a test between two ticks
HarnessSetSoc(max, soc) ==
    /\ CanCall(max)
    /\ \E w \in {[Begin EXCEPT !.bms.soc_estimate = soc]} : Commit(w)
    /\ calls' = calls + 1
    /\ ticks' = ticks

\* bms.close_contactors() called by a test
HarnessCloseContactors(max) ==
    /\ CanCall(max)
    /\ \E w \in {CloseContactors(Begin)} : Commit(w)
    /\ calls' = calls + 1
    /\ ticks' = ticks

\* sim.run(duration) called by a test: the call enters the loop
HarnessRun(max, duration) ==
    /\ CanCall(max)
    /\ ~engine.loop.active
    /\ \E w \in {RunEnter(Begin, duration)} : Commit(w)
    /\ calls' = calls + 1
    /\ ticks' = 0

\* one iteration of the loop of run; ticks counts the calls of step()
RunTick ==
    /\ exc = "none"
    /\ RunLoopGoesOn(engine)
    /\ \E stop \in BOOLEAN : \E w \in {RunIteration(Begin, stop)} : Commit(w)
    /\ ticks' = ticks + 1
    /\ calls' = calls

\* the loop of run ends and run returns
RunExit ==
    /\ exc = "none"
    /\ engine.loop.active
    /\ ~RunLoopGoesOn(engine)
    /\ \E w \in {RunReturn(World)} : Commit(w)
    /\ UNCHANGED <<ticks, calls>>

\* ------------------------------------------------- specification: the bus

\* what the tests of the bus broadcast: telemetry, commands and requests
BusMessages ==
    { [id |-> "HV_TEMP", data |-> Num(70000), sender |-> "BatteryPlant"],
      [id |-> "HV_VOLTAGE", data |-> Num(400000), sender |-> "TestHarness"],
      [id |-> "BRAKE_CMD", data |-> Num(500), sender |-> "Intruder"],
      [id |-> "BRAKE_CMD", data |-> Num(1000), sender |-> "ADAS_ECU"],
      [id |-> "UDS_REQUEST", data |-> Dict([sid |-> 16, sub_fn |-> 1]),
       sender |-> "TestHarness"],
      [id |-> "RADAR_OBJECTS",
       data |-> List(<<[id |-> 1, dist |-> 20000, rel_speed |-> -20000,
                        lat_pos |-> 0, lat_speed |-> 0]>>),
       sender |-> "TestHarness"] }

BusFaults ==
    { <<"DROP", "BRAKE_CMD">>, <<"CORRUPT", "HV_VOLTAGE">>, <<"CORRUPT", "ALL">> }

InitBus == \E w \in {IntegrationSetup, ChargingSetup} : Start(w)

NextBus ==
    \/ Tick(BusTicks)
    \/ \E m \in BusMessages : HarnessBroadcast(BusCalls, m.id, m.data, m.sender)
    \/ \E f \in BusFaults : HarnessInject(BusCalls, f[1], f[2])
    \/ HarnessConnectCable(BusCalls)

SpecBus == InitBus /\ [][NextBus]_vars

\* the registry indices whose receive_message broadcast k of obs.emits invoked
Invoked(k) == {obs.rxs[j].node : j \in {j \in DOMAIN obs.rxs : obs.rxs[j].bc = k}}

\* the registry indices of the nodes whose name differs from the sender's
NotSender(sender) == {i \in DOMAIN nodes : nodes[i].name # sender}

\* C1: every broadcast that is not dropped invokes receive_message on every
\* registered node whose name differs from the sender and on no node whose
\* name equals the sender, re-entrant broadcasts included.
C1_DeliveredToAllButSender ==
    \A k \in DOMAIN obs.emits :
        ~obs.emits[k].drop => Invoked(k) = NotSender(obs.emits[k].sender)

\* ----------------------------------------------- specification: the AEB

\* radar objects of the scenario tests: closing in lane at 1 s and at 5 s,
\* closing in the next lane at 1 s, and an object without dist
ObjThreat == [id |-> 1, dist |-> 20000, rel_speed |-> -20000, lat_pos |-> 0, lat_speed |-> 0]
ObjFar == [id |-> 2, dist |-> 100000, rel_speed |-> -20000, lat_pos |-> 0, lat_speed |-> 0]
ObjNextLane == [id |-> 3, dist |-> 20000, rel_speed |-> -20000, lat_pos |-> 3000, lat_speed |-> 0]
ObjNoDist == [id |-> 4, rel_speed |-> -20000]

RadarObjs == <<ObjThreat, ObjFar, ObjNextLane, ObjNoDist>>

\* the RADAR_OBJECTS payloads a test broadcasts: lists of up to two objects
RadarLists ==
    {<<>>} \cup {<<RadarObjs[i]>> : i \in DOMAIN RadarObjs}
           \cup {<<RadarObjs[i], RadarObjs[j]>> : i, j \in DOMAIN RadarObjs}

\* radar.add_object(...) calls of a test before the first tick
Scenes == {<<>>, <<ObjThreat>>, <<ObjFar, ObjNextLane>>}

RECURSIVE AddObjects(_, _)
AddObjects(w, objs) ==
    IF objs = <<>> THEN w
    ELSE AddObjects(AddObject(w, Head(objs).id, Head(objs).dist, Head(objs).rel_speed,
                              Head(objs).lat_pos, Head(objs).lat_speed),
                    Tail(objs))

InitAdas ==
    \E scene \in Scenes :
        Start(AddObjects([SafetySetup EXCEPT !.veh.v = 20000], scene))

NextAdas ==
    \/ Tick(AdasTicks)
    \/ \E l \in RadarLists :
           HarnessBroadcast(AdasCalls, "RADAR_OBJECTS", List(l), "TestHarness")
    \/ HarnessBroadcast(AdasCalls, "RADAR_OBJECTS", Str("garbage"), "TestHarness")
    \/ \E f \in {<<"DROP", "BRAKE_CMD">>, <<"CORRUPT", "RADAR_OBJECTS">>} :
           HarnessInject(AdasCalls, f[1], f[2])

SpecAdas == InitAdas /\ [][NextAdas]_vars

\* an object with rel_speed < 0, |lat_pos| <= 1.75 and -dist/rel_speed < 2.5
IsThreat(o) ==
    /\ Has(o, "dist") /\ Has(o, "rel_speed")
    /\ o.rel_speed < 0
    /\ Abs(IF Has(o, "lat_pos") THEN o.lat_pos ELSE 0) <= 1750
    /\ o.dist * 2 < 5 * (-o.rel_speed)

HasThreat(p) == p.t = "list" /\ \E i \in DOMAIN p.l : IsThreat(p.l[i])

\* every element of the list carries dist and rel_speed
WellFormed(p) ==
    p.t = "list" /\ \A i \in DOMAIN p.l : Has(p.l[i], "dist") /\ Has(p.l[i], "rel_speed")

\* the RADAR_OBJECTS payloads the AdasECU processed in the last harness call
AdasRadarRx ==
    {j \in DOMAIN obs.rxs :
        nodes[obs.rxs[j].node].cls = "AdasECU" /\ obs.rxs[j].id = "RADAR_OBJECTS"}

\* the AdasECU called broadcast('BRAKE_CMD', 1.0) after broadcast k was made
BrakedAfter(k) ==
    \E e \in DOMAIN obs.emits :
        /\ e > k
        /\ obs.emits[e].id = "BRAKE_CMD" /\ obs.emits[e].sender = adas.name
        /\ obs.emits[e].data.t = "num" /\ obs.emits[e].data.v = 1000

\* C2 as stated: whenever the AdasECU processes a RADAR_OBJECTS payload with
\* a closing in-lane object of TTC < 2.5 s, whatever the other elements are,
\* it sets aeb_triggered and broadcasts BRAKE_CMD = 1.0 in the same tick.
C2_AebOnAnyThreat ==
    \A j \in AdasRadarRx :
        HasThreat(obs.rxs[j].data) => adas.aeb_triggered /\ BrakedAfter(obs.rxs[j].bc)

\* C2 amended: the same, for a payload that is a list whose elements all
\* carry dist and rel_speed.
C2_AebOnThreatWellFormed ==
    \A j \in AdasRadarRx :
        WellFormed(obs.rxs[j].data) /\ HasThreat(obs.rxs[j].data)
            => adas.aeb_triggered /\ BrakedAfter(obs.rxs[j].bc)

\* the AEB fired on a two-object list whose second object is the threat
C2_Witness ==
    \E j \in AdasRadarRx :
        /\ WellFormed(obs.rxs[j].data) /\ Len(obs.rxs[j].data.l) = 2
        /\ ~IsThreat(obs.rxs[j].data.l[1]) /\ IsThreat(obs.rxs[j].data.l[2])
        /\ adas.aeb_triggered /\ BrakedAfter(obs.rxs[j].bc)

\* ----------------------------------------------- specification: the BMS

\* the sensor drifts a test sets: over-voltage, under-voltage, over-temperature
SensorDrifts ==
    {[voltage |-> 30000], [voltage |-> -90000], [temp |-> 50000]}

\* a test writes bms.soc_estimate before the first tick
InitBms ==
    \/ \E soc \in {50000, 100000} :
           Start([ChargingSetup EXCEPT !.bms.soc_estimate = soc])
    \/ Start(EnvSetup)

NextBms ==
    \/ Tick(BmsTicks)
    \/ HarnessConnectCable(BmsCalls)
    \/ HarnessCloseContactors(BmsCalls)
    \/ \E d \in SensorDrifts :
           HarnessBroadcast(BmsCalls, "SET_SENSOR_DRIFT", Dict(d), "TestHarness")

SpecBms == InitBms /\ [][NextBms]_vars

\* the last harness call was sim.step()
WasTick == obs.sched # <<>>

\* the messages the BmsECU received in the last harness call
BmsRx == {j \in DOMAIN obs.rxs : nodes[obs.rxs[j].node].cls = "BmsECU"}

UnderVoltageRx(j) ==
    /\ obs.rxs[j].id = "HV_VOLTAGE" /\ IsNum(obs.rxs[j].data)
    /\ obs.rxs[j].data.v < 320000

OverVoltageRx(j) ==
    /\ obs.rxs[j].id = "HV_VOLTAGE" /\ IsNum(obs.rxs[j].data)
    /\ obs.rxs[j].data.v > 420000

OverTempRx(j) ==
    /\ obs.rxs[j].id = "HV_TEMP" /\ IsNum(obs.rxs[j].data)
    /\ obs.rxs[j].data.v > 60000

\* the broadcasts of msg_id made in the last harness call
EmitsOf(msg_id) == {e \in DOMAIN obs.emits : obs.emits[e].id = msg_id}

\* the most recent CONTACTOR_STATE broadcast of the call carries False
LastContactorStateFalse ==
    /\ EmitsOf("CONTACTOR_STATE") # {}
    /\ LET e == CHOOSE e \in EmitsOf("CONTACTOR_STATE") :
                    \A f \in EmitsOf("CONTACTOR_STATE") : f <= e
       IN  obs.emits[e].data = Bool(FALSE)

\* C3: at the end of every engine tick in which the BmsECU received an
\* HV_VOLTAGE outside [320, 420] or an HV_TEMP above 60, the most recent
\* CONTACTOR_STATE broadcast is false and contactors_closed is false.
C3_ContactorsOpenAfterViolation ==
    (WasTick /\ \E j \in BmsRx : UnderVoltageRx(j) \/ OverVoltageRx(j) \/ OverTempRx(j))
        => ~bms.contactors_closed /\ LastContactorStateFalse

\* a tick with an over-voltage reading that began with the contactors
\* closed by the charging handshake: the charger saw them open
C3_Witness ==
    /\ WasTick
    /\ \E j \in BmsRx : OverVoltageRx(j)
    /\ \E j \in DOMAIN obs.rxs :
           /\ nodes[obs.rxs[j].node].cls = "ChargingStation"
           /\ obs.rxs[j].id = "CONTACTOR_STATE"
    /\ charger.state = "ERROR"
    /\ ~bms.contactors_closed /\ LastContactorStateFalse

\* the BmsECU broadcast CHARGE_REQUEST with charging_enabled = False in the
\* last harness call
StopRequested ==
    \E e \in EmitsOf("CHARGE_REQUEST") :
        /\ obs.emits[e].sender = bms.name
        /\ obs.emits[e].data = Dict([charging_enabled |-> FALSE])

\* C4: after the BmsECU processes any safety violation (voltage below 320,
\* voltage above 420, temperature above 60), from any charging state,
\* charging_state is IDLE, a CHARGE_REQUEST with charging_enabled = false
\* has been broadcast and the contactors are open.
C4_IdleAfterAnyViolation ==
    (\E j \in BmsRx : UnderVoltageRx(j) \/ OverVoltageRx(j) \/ OverTempRx(j))
        => /\ bms.charging_state = "IDLE"
           /\ StopRequested
           /\ ~bms.contactors_closed

\* ------------------------------------ specification: the UDS diagnostics

\* service ids: 0x10, 0x22, 0x27, 0x31 and the unsupported 0x3F
UdsSids == {16, 34, 39, 49, 63}
UdsSubFns == {1, 2}
\* data identifiers: the VIN 0xF190 and the wiper routine 0x0100
UdsDids == {61840, 256}
\* keys: 1 and seed + 1
UdsKeys == {1, SEED_VALUE + 1}

\* the request dicts a tester sends: sid with any of sub_fn, did and data
\* present or absent, and a request without sid
UdsRequests ==
    LET Opt(k, S) == {<<>>} \cup {(k :> x) : x \in S}
    IN  {[sub_fn |-> 2]} \cup
        {("sid" :> sid) @@ a @@ b @@ c :
            sid \in UdsSids, a \in Opt("sub_fn", UdsSubFns),
            b \in Opt("did", UdsDids), c \in Opt("data", UdsKeys)}

InitUds == \E w \in {UdsSetup, KnownFailuresSetup} : Start(w)

NextUds ==
    \/ Tick(UdsTicks)
    \/ \E r \in UdsRequests :
           HarnessBroadcast(UdsCalls, "UDS_REQUEST", Dict(r), "TestHarness")

SpecUds == InitUds /\ [][NextUds]_vars

\* the request dict of a UDS_REQUEST with the given sid and sub_fn, sent by
\* the harness call that produced the next state
UdsCall(sid, sub_fn) ==
    /\ obs'.emits # <<>>
    /\ obs'.emits[1].id = "UDS_REQUEST"
    /\ LET q == obs'.emits[1].data.d
       IN  /\ Has(q, "sid") /\ q.sid = sid
           /\ Has(q, "sub_fn") /\ q.sub_fn = sub_fn

\* C5: security_unlocked changes from false to true only on a UDS 0x27/0x02
\* request whose data equals the stored seed + 1, and only if a 0x27/0x01
\* seed request has been processed earlier (the stored seed is then 0x1234).
C5_UnlockOnlyAfterSeed ==
    [][(~gateway.security_unlocked /\ gateway.security_unlocked')
          => /\ UdsCall(39, 2)
             /\ Has(obs'.emits[1].data.d, "data")
             /\ obs'.emits[1].data.d.data = gateway.security_seed + 1
             /\ gateway.security_seed = SEED_VALUE]_vars

\* the UDS_REQUEST messages with a sid that the gateway received in the
\* last harness call
UdsRx ==
    {j \in DOMAIN obs.rxs :
        /\ nodes[obs.rxs[j].node].cls = "GatewayECU"
        /\ obs.rxs[j].id = "UDS_REQUEST"
        /\ IsDict(obs.rxs[j].data) /\ Has(obs.rxs[j].data.d, "sid")}

\* response r answers a request with service id sid
Answers(r, sid) ==
    \/ r.sid = sid + 64
    \/ r.sid = 127 /\ Has(r, "request_sid") /\ r.request_sid = sid

\* C6: every UDS_REQUEST the gateway processes produces exactly one
\* UDS_RESPONSE, whose sid is the request's sid + 0x40 or is 0x7F with
\* request_sid equal to the request's sid.
C6_OneResponsePerRequest ==
    \A j \in UdsRx :
        /\ Cardinality(EmitsOf("UDS_RESPONSE")) = 1
        /\ \A e \in EmitsOf("UDS_RESPONSE") :
               /\ e > obs.rxs[j].bc
               /\ obs.emits[e].sender = gateway.name
               /\ Answers(obs.emits[e].data.d, obs.rxs[j].data.d.sid)

\* an unsupported service got its negative response
C6_Witness ==
    \E j \in UdsRx :
        /\ obs.rxs[j].data.d.sid = 63
        /\ \E e \in EmitsOf("UDS_RESPONSE") :
               /\ obs.emits[e].data.d.sid = 127
               /\ obs.emits[e].data.d.request_sid = 63

InitialSpeeds == {-5000, 0, 800, 25000}

\* the actuator and environment messages a test broadcasts
VehMessages ==
    {<<"ACCEL_CMD", Num(a)>> : a \in {-1000, 0, 1000}}
        \cup {<<"BRAKE_CMD", Num(b)>> : b \in {-500, 0, 500, 1000}}
        \cup {<<"SET_ENV_MU", Dict(m)>> :
                  m \in {[mu_l |-> 1000, mu_r |-> 200], [mu_l |-> 0, mu_r |-> 0],
                         [mu |-> 500]}}

InitVeh == \E v0 \in InitialSpeeds : Start([DynamicsSetup EXCEPT !.veh.v = v0])

NextVeh ==
    \/ Tick(VehTicks)
    \/ \E m \in VehMessages : HarnessBroadcast(VehCalls, m[1], m[2], "TestHarness")

SpecVeh == InitVeh /\ [][NextVeh]_vars

RECURSIVE WarmUp(_, _, _)
WarmUp(w, from, n) ==
    IF n = 0 THEN w
    ELSE IF n = 1
      THEN Broadcast([w EXCEPT !.obs = NoObs], "WHEEL_SPEED", Num(from), "TestHarness")
    ELSE LET h == n \div 2
             w1 == WarmUp(w, from, h)
         IN  IF Raised(w1) THEN w1 ELSE WarmUp(w1, from + h, n - h)

\* the lengths of the opening loop: none, and three short of the capacity
WarmUps == {0, LOG_MAXLEN - 3}

LogMessages ==
    {<<"BRAKE_CMD", Num(500), "Intruder">>,
     <<"BRAKE_CMD", Num(1000), "ADAS_ECU">>,
     <<"HV_VOLTAGE", Num(400000), "TestHarness">>}

LogFaults == {<<"DROP", "BRAKE_CMD">>, <<"CORRUPT", "SECURITY_ALERT">>, <<"CORRUPT", "ALL">>}

InitLog ==
    \E n \in WarmUps :
        \E w \in {WarmUp(IntegrationSetup, 1, n)} : Start([w EXCEPT !.obs = NoObs])

NextLog ==
    \/ Tick(LogTicks)
    \/ \E m \in LogMessages : HarnessBroadcast(LogCalls, m[1], m[2], m[3])
    \/ \E f \in LogFaults : HarnessInject(LogCalls, f[1], f[2])

SpecLog == InitLog /\ [][NextLog]_vars

\* the log entries of the non-dropped broadcasts of a call, in emission
\* order, as they left the fault injector
LogEntries(emits) ==
    LET kept == SelectSeq(emits, LAMBDA e : ~e.drop)
    IN  [i \in 1..Len(kept) |->
            [id |-> kept[i].id, data |-> kept[i].sent, sender |-> kept[i].sender]]

\* the last n elements of s
LastN(s, n) == IF Len(s) <= n THEN s ELSE SubSeq(s, Len(s) - n + 1, Len(s))

\* C8: the bus log never exceeds 1000 entries and holds the most recent
\* min(n, 1000) non-dropped broadcasts in emission order (an outer broadcast
\* before the re-entrant ones it causes), each entry with the id, payload
\* and sender as they left the fault injector; the oldest entry is evicted
\* first.  Stated per call: the log after a call is the log before it
\* followed by the call's non-dropped broadcasts, cut to the last 1000.
C8_LogIsLastBroadcasts ==
    [][/\ Len(message_log') <= LOG_MAXLEN
       /\ message_log' = LastN(message_log \o LogEntries(obs'.emits), LOG_MAXLEN)]_vars

\* a full log that lost its oldest entry and ends with an intruder's
\* BRAKE_CMD followed by the gateway's corrupted alert
C8_Witness ==
    /\ Len(message_log) = LOG_MAXLEN
    /\ message_log[1].id = "WHEEL_SPEED" /\ message_log[1].data.v > 1
    /\ message_log[LOG_MAXLEN - 1].id = "BRAKE_CMD"
    /\ message_log[LOG_MAXLEN - 1].sender = "Intruder"
    /\ message_log[LOG_MAXLEN].id = "SECURITY_ALERT"
    /\ message_log[LOG_MAXLEN].data = Str("CORRUPTED_DATA")

\* --------------------------------------------- the registry and the tick

\* C9: register(node) fails when a node of the same name is already in the
\* registry and leaves the registry unchanged, so the names in the registry
\* are always unique.
C9_RegistryNamesUnique ==
    \A i, j \in DOMAIN nodes : nodes[i].name = nodes[j].name => i = j

\* the calls of one complete tick: update_physics and publish_sensor_data
\* for each plant in the order added, then step for each ECU in the order
\* added
PlantCalls ==
    [i \in 1..(2 * Len(engine.plants)) |->
        IF i % 2 = 1 THEN <<"update_physics", engine.plants[(i + 1) \div 2]>>
        ELSE <<"publish_sensor_data", engine.plants[i \div 2]>>]

EcuCalls == [i \in 1..Len(engine.ecus) |-> <<"step", engine.ecus[i]>>]

\* C10: one engine.step() calls, for each plant in the order it was added,
\* update_physics(dt) immediately followed by that plant's
\* publish_sensor_data(), and only after all plants have finished calls
\* step(dt) on each ECU in the order it was added.
C10_TickCallsInOrder == WasTick => obs.sched = PlantCalls \o EcuCalls

\* ------------------------------------------ specification: engine.run

\* the durations a test passes to run, in ms
RunDurations == {0, 250, 500, 1000}

InitRun == \E w \in {DynamicsSetup, ChargingSetup, EnvSetup} : Start(w)

NextRun ==
    \/ \E d \in RunDurations : HarnessRun(RunCalls, d)
    \/ RunTick
    \/ RunExit

SpecRun == InitRun /\ [][NextRun]_vars

\* what a step of RunTick and a step of RunExit do to the loop position
RunTickStep ==
    /\ exc = "none" /\ RunLoopGoesOn(engine)
    /\ ticks' = ticks + 1

RunExitStep ==
    /\ exc = "none" /\ engine.loop.active /\ ~RunLoopGoesOn(engine)
    /\ engine' = [engine EXCEPT !.loop.active = FALSE]

\* the loop is a plain for loop of the one engine thread: an iteration
\* that can run does run, and a finished loop returns
SpecRunFair == SpecRun /\ WF_ticks(RunTickStep) /\ WF_engine(RunExitStep)

\* a call of run has returned
RunReturned == calls > 0 /\ ~engine.loop.active

\* C11: engine.run(duration) executes exactly floor(duration/dt) ticks when
\* stop() is never called; if stop() is called during tick k, tick k runs
\* to completion (all its plant and ECU calls) and no later tick is
\* started; run always terminates.
C11_RunTicksAndTermination ==
    /\ [](/\ (RunReturned /\ engine.loop.stopped_at = 0)
                => ticks = engine.loop.duration \div engine.dt
          /\ engine.loop.stopped_at # 0
                => /\ ticks = engine.loop.stopped_at
                   /\ obs.sched = PlantCalls \o EcuCalls)
    /\ (engine.loop.active ~> ~engine.loop.active)

\* a run of at least five steps that stop() ended after its second tick
C11_Witness ==
    /\ RunReturned
    /\ engine.loop.steps >= 5
    /\ engine.loop.stopped_at = 2
    /\ ticks = 2

\* ------------------------------------------- the order of the deliveries

\* the entries of obs.rxs that belong to broadcast k of obs.emits
RxOf(k) == {j \in DOMAIN obs.rxs : obs.rxs[j].bc = k}

\* the broadcasts of the call made inside a receive_message, not dropped
Nested == {j \in DOMAIN obs.emits : obs.emits[j].parent # 0 /\ ~obs.emits[j].drop}

\* the later receptions of the broadcast during whose reception p the
\* broadcast was made
NextOfOuter(p) == {q \in DOMAIN obs.rxs : q > p /\ obs.rxs[q].bc = obs.rxs[p].bc}

\* C12: within one broadcast the receivers are invoked in registration
\* order, and a broadcast that a receiver issues inside receive_message is
\* logged and delivered to all of its own receivers before the outer
\* broadcast invokes its next receiver (depth-first).
C12_RegistrationOrderDepthFirst ==
    /\ \A p, q \in DOMAIN obs.rxs :
           (p < q /\ obs.rxs[p].bc = obs.rxs[q].bc) => obs.rxs[p].node < obs.rxs[q].node
    /\ LastN(message_log, Len(LogEntries(obs.emits))) = LogEntries(obs.emits)
    /\ \A j \in Nested :
           /\ obs.rxs[obs.emits[j].parent].bc < j
           /\ \A r \in RxOf(j) : obs.emits[j].parent < r
           /\ \A q \in NextOfOuter(obs.emits[j].parent) :
                  /\ Invoked(j) = NotSender(obs.emits[j].sender)
                  /\ \A r \in RxOf(j) : r < q

\* a receiver's own broadcast reached two nodes before the outer broadcast
\* went on to a later receiver
C12_Witness ==
    \E j \in Nested :
        /\ Cardinality(RxOf(j)) >= 2
        /\ NextOfOuter(obs.emits[j].parent) # {}

\* C13: messages are never reordered: every node receives the broadcasts
\* addressed to it in the order in which they were emitted (the order of
\* their log entries), also when a receiver registered earlier emits a
\* re-entrant broadcast while an outer broadcast is still being delivered.
C13_ReceivedInEmissionOrder ==
    \A p, q \in DOMAIN obs.rxs :
        (p < q /\ obs.rxs[p].node = obs.rxs[q].node) => obs.rxs[p].bc < obs.rxs[q].bc

\* ------------------------------------------ specification: dropped messages

\* tests/test_safety.py, test_brake_command_loss: the safety bench at 20 m/s
\* with an object 3 s or 1 s ahead; the test injects DROP faults, the bench
\* ticks, and a driver's BRAKE_CMD and ACCEL_CMD arrive from the harness
DropScenes ==
    { <<[id |-> 1, dist |-> 60000, rel_speed |-> -20000, lat_pos |-> 0, lat_speed |-> 0]>>,
      <<ObjThreat>> }

DropFaults == { <<"DROP", "BRAKE_CMD">>, <<"DROP", "ALL">>, <<"DROP", "RADAR_OBJECTS">> }

DropMessages ==
    { [id |-> "BRAKE_CMD", data |-> Num(1000)], [id |-> "ACCEL_CMD", data |-> Num(500)] }

InitDrop ==
    \E scene \in DropScenes :
        Start(AddObjects([SafetySetup EXCEPT !.veh.v = 20000], scene))

NextDrop ==
    \/ Tick(DropTicks)
    \/ \E f \in DropFaults : HarnessInject(DropCalls, f[1], f[2])
    \/ \E m \in DropMessages : HarnessBroadcast(DropCalls, m.id, m.data, "TestHarness")

SpecDrop == InitDrop /\ [][NextDrop]_vars

\* a DROP fault of the injector targets message id msg_id (or 'ALL')
DropTargets(msg_id) ==
    /\ injector.attached
    /\ \E i \in DOMAIN injector.active_faults :
           /\ injector.active_faults[i].type = "DROP"
           /\ injector.active_faults[i].target \in {msg_id, "ALL"}

\* the log entries of the broadcasts of a call that no DROP fault targets
UntargetedEntries(emits) ==
    LET kept == SelectSeq(emits, LAMBDA e : ~DropTargets(e.id))
    IN  [i \in 1..Len(kept) |->
            [id |-> kept[i].id, data |-> kept[i].sent, sender |-> kept[i].sender]]

\* C14: while a DROP fault targets a message ID (or 'ALL'), a broadcast of
\* that ID is neither logged nor delivered, so that no receiver's state
\* changes; with DROP on BRAKE_CMD the AdasECU sets aeb_triggered, but
\* VehicleDynamics.brake keeps its previous value and the vehicle does not
\* decelerate.
C14_DroppedNeitherLoggedNorDelivered ==
    [][/\ \A k \in DOMAIN obs'.emits :
              DropTargets(obs'.emits[k].id) => \A j \in DOMAIN obs'.rxs : obs'.rxs[j].bc # k
       /\ message_log' = message_log \o UntargetedEntries(obs'.emits)
       /\ (obs'.sched = <<>> /\ obs'.emits # <<>> /\ DropTargets(obs'.emits[1].id))
              => /\ Len(obs'.emits) = 1
                 /\ UNCHANGED <<nodes, adas, bms, gateway, vehicle, battery, charger, radar>>
       /\ DropTargets("BRAKE_CMD")
              => /\ vehicle'.brake = vehicle.brake
                 /\ vehicle.brake = Num(0) => vehicle'.v >= vehicle.v]_vars

\* after a tick the AEB is on, its BRAKE_CMD = 1.0 was dropped, the brake
\* is still released and the vehicle still drives at 20 m/s
C14_Witness ==
    /\ ticks >= 1 /\ exc = "none"
    /\ DropTargets("BRAKE_CMD")
    /\ adas.aeb_triggered
    /\ \E k \in DOMAIN obs.emits :
           /\ obs.emits[k].id = "BRAKE_CMD" /\ obs.emits[k].data = Num(1000)
           /\ obs.emits[k].sender = adas.name /\ obs.emits[k].drop
    /\ vehicle.brake = Num(0)
    /\ vehicle.v = 20000

\* ------------------------------------------------ exceptions across the bus

\* C15: receivers never propagate exceptions across the bus: for every
\* message ID and payload, the 'CORRUPTED_DATA' sentinel and payloads with
\* missing fields included, receive_message of the AdasECU, BmsECU,
\* GatewayECU, VehicleDynamics, BatteryPlant and ChargingStation returns
\* normally.
C15_ReceiversReturnNormally == obs.thrown = 0

\* ------------------------------------- specification: malformed radar data

\* tests/test_safety.py, test_radar_data_corruption, and the payloads a
\* fuzzing harness sends: not a list, or a list with an object that lacks
\* dist or rel_speed before, after or without a threat
ObjNoSpeed == [id |-> 5, dist |-> 20000, lat_pos |-> 0]

RadarPayloads ==
    { Str("garbage"), None, Num(1000), Dict([dist |-> 20000, rel_speed |-> -20000]),
      List(<<ObjNoDist>>), List(<<ObjNoSpeed>>),
      List(<<ObjThreat, ObjNoDist>>), List(<<ObjThreat, ObjNoSpeed>>),
      List(<<ObjNoSpeed, ObjThreat>>), List(<<ObjNextLane, ObjNoDist>>),
      List(<<ObjThreat>>), List(<<ObjFar>>), List(<<>>) }

InitMal ==
    \E scene \in {<<>>, <<ObjThreat>>} :
        Start(AddObjects([SafetySetup EXCEPT !.veh.v = 20000], scene))

NextMal ==
    \/ Tick(MalTicks)
    \/ \E p \in RadarPayloads :
           HarnessBroadcast(MalCalls, "RADAR_OBJECTS", p, "TestHarness")
    \/ HarnessInject(MalCalls, "CORRUPT", "RADAR_OBJECTS")

SpecMal == InitMal /\ [][NextMal]_vars

\* the broadcasts the receive_message of entry j of obs.rxs made itself
EmitsIn(j) == {e \in DOMAIN obs.emits : obs.emits[e].parent = j}

\* C16: for a RADAR_OBJECTS payload that is not a list, or a list with an
\* object without dist or rel_speed, the AdasECU raises no exception, ends
\* with aeb_triggered = false, broadcasts BRAKE_CMD = 0.0 and never
\* broadcasts BRAKE_CMD = 1.0 for that message.
C16_MalformedRadarReleases ==
    \A j \in AdasRadarRx :
        ~WellFormed(obs.rxs[j].data)
            => /\ obs.thrown # j /\ exc = "none"
               /\ ~adas.aeb_triggered
               /\ \E e \in EmitsIn(j) :
                      /\ obs.emits[e].id = "BRAKE_CMD" /\ obs.emits[e].data = Num(0)
                      /\ obs.emits[e].sender = adas.name
               /\ \A e \in EmitsIn(j) :
                      ~(obs.emits[e].id = "BRAKE_CMD" /\ obs.emits[e].data = Num(1000))

\* the AEB was on (a BRAKE_CMD = 1.0 is in the log) when a list with a
\* threat followed by an object without rel_speed arrived and released it
C16_Witness ==
    /\ \E i \in DOMAIN message_log :
           message_log[i].id = "BRAKE_CMD" /\ message_log[i].data = Num(1000)
    /\ \E j \in AdasRadarRx : obs.rxs[j].data = List(<<ObjThreat, ObjNoSpeed>>)
    /\ ~adas.aeb_triggered
    /\ vehicle.brake = Num(0)

\* ------------------------------------------ specification: the scenarios

\* tests/test_scenarios.py: the vehicle at 20 m/s and one radar object,
\* (1) test_stationary_obstacle, (2) test_cut_in_scenario, (3) an object
\* that passes in the adjacent lane
ScenarioObjects ==
    { [id |-> 1, dist |-> 100000, rel_speed |-> -20000, lat_pos |-> 0, lat_speed |-> 0],
      [id |-> 2, dist |-> 60000, rel_speed |-> -10000, lat_pos |-> 3000, lat_speed |-> -1000],
      [id |-> 3, dist |-> 100000, rel_speed |-> -20000, lat_pos |-> 3000, lat_speed |-> 0] }

InitScen ==
    \E o \in ScenarioObjects :
        Start(AddObject([ScenarioSetup EXCEPT !.veh.v = 20000],
                        o.id, o.dist, o.rel_speed, o.lat_pos, o.lat_speed))

\* the scenario under test, by the id of its object
Scenario == IF radar.objects = <<>> THEN 0 ELSE radar.objects[1].id

\* for _ in range(60): sim.step(); ...; if vehicle.state['v'] == 0: break
StationaryGoesOn ==
    /\ Scenario = 1
    /\ CanTick(StationaryTicks)
    /\ ticks = 0 \/ vehicle.v # 0

\* for i in range(50): sim.step()
CutInGoesOn == Scenario \in {2, 3} /\ CanTick(CutInTicks)

StationaryTick == StationaryGoesOn /\ Tick(StationaryTicks)

CutInTick == CutInGoesOn /\ Tick(CutInTicks)

NextScen == StationaryTick \/ CutInTick

SpecScen == InitScen /\ [][NextScen]_vars

\* what an iteration of either loop does to the tick count
ScenTickStep ==
    /\ StationaryGoesOn \/ CutInGoesOn
    /\ ticks' = ticks + 1

\* the loops are for loops of the one test thread: an iteration that can
\* run does run
SpecScenFair == SpecScen /\ WF_ticks(ScenTickStep)

\* the BRAKE_CMD = 1.0 broadcasts of the AdasECU in the last tick
AebCommands ==
    {e \in DOMAIN obs.emits :
        /\ obs.emits[e].id = "BRAKE_CMD" /\ obs.emits[e].data = Num(1000)
        /\ obs.emits[e].sender = adas.name}

\* the number of ticks that begin before time t (tick k begins at
\* (k - 1) * dt, the test's i * 0.1)
TicksBefore(t) == (t - 1) \div engine.dt + 1

\* C17: the AEB never triggers on account of an object with
\* |lat_pos| > 1.75 (a tick whose radar list has no closing object in lane
\* with TTC < 2.5 s ends with the AEB off and no BRAKE_CMD = 1.0); in the
\* cut-in scenario (dist 60, rel_speed -10, lat_pos 3, lat_speed -1,
\* v = 20, dt = 0.1) aeb_triggered is false on every tick before t = 1.25 s
\* and true on some later tick.
C17_NoAebOutOfLane ==
    /\ [](\A j \in AdasRadarRx :
             ~HasThreat(obs.rxs[j].data) => ~adas.aeb_triggered /\ AebCommands = {})
    /\ []((Scenario = 2 /\ ticks <= TicksBefore(1250)) => ~adas.aeb_triggered)
    /\ <>(Scenario = 2 => (adas.aeb_triggered /\ ticks > TicksBefore(1250)))

\* the cut-in object is in lane and 2.4 s ahead: the AEB is on, at 3.6 s
C17_Witness ==
    /\ Scenario = 2 /\ ticks = 36
    /\ radar.objects[1].lat_pos = -600 /\ radar.objects[1].dist = 24000
    /\ adas.aeb_triggered /\ AebCommands # {}

\* the distance of the obstacle
ObstacleDist == radar.objects[1].dist

\* C18: in the stationary-obstacle scenario (v = 20, dt = 0.1, object at
\* dist 100 with rel_speed -20 in lane, at most 60 ticks, stepping stops at
\* the tick where v reaches 0) the AEB triggers while dist > 0, v reaches
\* 0, and dist stays > 0.
C18_StationaryObstacleAvoided ==
    /\ [](Scenario = 1 => ObstacleDist > 0 /\ ticks <= 60)
    /\ <>(Scenario = 1 => adas.aeb_triggered /\ ObstacleDist > 0)
    /\ <>(Scenario = 1 => vehicle.v = 0)

\* the vehicle stands 10 m before the obstacle after 45 ticks, the AEB on
C18_Witness ==
    /\ Scenario = 1 /\ ticks = 45
    /\ vehicle.v = 0 /\ vehicle.brake = Num(1000)
    /\ adas.aeb_triggered
    /\ ObstacleDist = 10000

\* --------------------------------------------- OTA and UDS rejections

\* the OTA_UPDATE payloads of tests/test_cybersecurity.py, a second valid
\* image, and payloads with absent keys
OtaPayloads ==
    {[version |-> "2.0", signature |-> "valid_sig", binary |-> "101010"],
     [version |-> "2.0", signature |-> "evil_hacker", binary |-> "rm -rf /"],
     [version |-> "2.0", signature |-> "valid_sig", binary |-> "corrupt_chunk"],
     [version |-> "3.0", signature |-> "valid_sig", binary |-> "101010"],
     [version |-> "3.0", binary |-> "101010"],
     [version |-> "3.0", signature |-> "valid_sig"]}

\* UDS requests: accepted and rejected ones of every service
OtaUdsRequests ==
    {[sid |-> 16, sub_fn |-> 3], [sid |-> 16, sub_fn |-> 4],
     [sid |-> 34, did |-> 61840], [sid |-> 34, did |-> 256],
     [sid |-> 39, sub_fn |-> 1],
     [sid |-> 39, sub_fn |-> 2, data |-> SEED_VALUE + 1],
     [sid |-> 39, sub_fn |-> 2, data |-> SEED_VALUE + 999],
     [sid |-> 49, sub_fn |-> 1, did |-> 256], [sid |-> 49, sub_fn |-> 1, did |-> 512],
     [sid |-> 49, sub_fn |-> 2, did |-> 256],
     [sid |-> 63]}

InitOta == \E w \in {OtaSetup, SecurityAccessDone} : Start(w)

NextOta ==
    \/ Tick(OtaTicks)
    \/ \E p \in OtaPayloads :
           HarnessBroadcast(OtaCalls, "OTA_UPDATE", Dict(p), "TestHarness")
    \/ \E r \in OtaUdsRequests :
           HarnessBroadcast(OtaCalls, "UDS_REQUEST", Dict(r), "TestHarness")

SpecOta == InitOta /\ [][NextOta]_vars

\* the status the gateway is to report for the OTA_UPDATE payload d
OtaOutcome(d) ==
    IF ~Has(d, "signature") \/ d.signature # "valid_sig" THEN "FAILED_SIG_VERIFY"
    ELSE IF Has(d, "binary") /\ d.binary = "corrupt_chunk" THEN "ROLLBACK_COMPLETE"
    ELSE "SUCCESS"

\* the receptions of OTA_UPDATE by the gateway in the call that produced
\* the next state
OtaRx ==
    {j \in DOMAIN obs'.rxs :
        /\ nodes'[obs'.rxs[j].node].cls = "GatewayECU"
        /\ obs'.rxs[j].id = "OTA_UPDATE"}

\* the OTA_STATUS broadcasts issued while reception j was handled
OtaStatusOf(j) ==
    {e \in DOMAIN obs'.emits :
        obs'.emits[e].parent = j /\ obs'.emits[e].id = "OTA_STATUS"}

\* C19: each OTA_UPDATE the gateway receives yields exactly one OTA_STATUS:
\* FAILED_SIG_VERIFY if the signature is not 'valid_sig', ROLLBACK_COMPLETE
\* if it is valid and the binary is 'corrupt_chunk', SUCCESS otherwise; and
\* current_version changes, to the payload's version, only with SUCCESS.
C19_OneOtaStatusPerUpdate ==
    [][/\ \A j \in OtaRx :
            LET d == obs'.rxs[j].data.d
            IN  /\ Cardinality(OtaStatusOf(j)) = 1
                /\ \A e \in OtaStatusOf(j) :
                       obs'.emits[e].data = Str(OtaOutcome(d))
                /\ gateway'.current_version =
                       IF OtaOutcome(d) = "SUCCESS" THEN d.version
                       ELSE gateway.current_version
       /\ (OtaRx = {} => gateway'.current_version = gateway.current_version)
      ]_vars

\* version 3.0 runs, and the update to 2.0 with a corrupt binary was
\* rolled back
C19_Witness ==
    /\ gateway.current_version = "3.0"
    /\ \E e \in DOMAIN obs.emits :
           /\ obs.emits[e].id = "OTA_STATUS"
           /\ obs.emits[e].data = Str("ROLLBACK_COMPLETE")
           /\ obs.emits[e].parent # 0
           /\ obs.rxs[obs.emits[e].parent].data.d.version = "2.0"

\* the gateway rejected a request in the call that produced the next state
Rejected ==
    \E e \in DOMAIN obs'.emits :
        /\ obs'.emits[e].sender = gateway.name
        /\ \/ /\ obs'.emits[e].id = "UDS_RESPONSE"
              /\ obs'.emits[e].data.d.sid = NEGATIVE_SID
           \/ /\ obs'.emits[e].id = "OTA_STATUS"
              /\ obs'.emits[e].data = Str("FAILED_SIG_VERIFY")

\* C20: a rejection changes no state: when the gateway answers with a UDS
\* negative response (0x7F) or with OTA_STATUS FAILED_SIG_VERIFY, its
\* diagnostic_session, security_seed, security_unlocked and
\* current_version keep their values.
C20_RejectionChangesNoState ==
    [][Rejected =>
          /\ gateway'.diagnostic_session = gateway.diagnostic_session
          /\ gateway'.security_seed = gateway.security_seed
          /\ gateway'.security_unlocked = gateway.security_unlocked
          /\ gateway'.current_version = gateway.current_version
      ]_vars

\* the unlocked gateway has answered an invalid key with NRC 0x35 and is
\* still unlocked
C20_Witness ==
    /\ gateway.security_unlocked /\ gateway.security_seed = SEED_VALUE
    /\ \E e \in DOMAIN obs.emits :
           /\ obs.emits[e].id = "UDS_RESPONSE"
           /\ obs.emits[e].data.d.sid = NEGATIVE_SID
           /\ obs.emits[e].data.d.nrc = 53

\* ------------------------------------------------- intrusion detection

\* the messages of the bench as the gateway sees them: commands from every
\* allowlisted sender, from the ESC ECU, the driver model and a stranger,
\* a message that is no command, and the yaw rates that switch the ESC
IdsMessages ==
    {<<"BRAKE_CMD", Num(500), s>> :
        s \in ALLOWED_SENDERS \cup {"ESC_ECU", "Driver", "Hacker"}}
      \cup {<<"ACCEL_CMD", Num(300), "Driver">>, <<"ACCEL_CMD", Num(300), "ADAS_ECU">>,
            <<"STEERING_CMD", Num(100), "Hacker">>,
            <<"STEERING_CMD", Num(100), "ADAS_ECU">>,
            <<"ESC_STATUS", Str("ACTIVE"), "Hacker">>,
            <<"YAW_RATE", Num(800), "TestHarness">>,
            <<"YAW_RATE", Num(0), "TestHarness">>}

InitIds == Start(IdsSetup)

NextIds ==
    \/ Tick(IdsTicks)
    \/ \E m \in IdsMessages : HarnessBroadcast(IdsCalls, m[1], m[2], m[3])

SpecIds == InitIds /\ [][NextIds]_vars

\* the receptions of the gateway in the last call
GatewayRx == {j \in DOMAIN obs.rxs : nodes[obs.rxs[j].node].cls = "GatewayECU"}

\* the SECURITY_ALERT broadcasts issued while reception j was handled
AlertsOf(j) == {e \in EmitsIn(j) : obs.emits[e].id = "SECURITY_ALERT"}

\* C22: the gateway broadcasts SECURITY_ALERT{type: UNAUTHORIZED_ACCESS}
\* for a received message iff its msg_id contains 'CMD' and its sender is
\* not one of ADAS_ECU, BMS_ECU, VehicleDynamics, TestHarness, V2XRadio:
\* no alert for an allowlisted sender, exactly one for any other sender.
C22_AlertIffUnauthorizedCommand ==
    /\ \A j \in GatewayRx :
          IF /\ obs.rxs[j].id \in {"STEERING_CMD", "BRAKE_CMD", "ACCEL_CMD"}
             /\ obs.rxs[j].sender \notin
                    {"ADAS_ECU", "BMS_ECU", "VehicleDynamics", "TestHarness", "V2XRadio"}
            THEN /\ Cardinality(AlertsOf(j)) = 1
                 /\ \A e \in AlertsOf(j) :
                        /\ obs.emits[e].data.d.type = "UNAUTHORIZED_ACCESS"
                        /\ obs.emits[e].sender = gateway.name
          ELSE AlertsOf(j) = {}
    /\ \A e \in EmitsOf("SECURITY_ALERT") : obs.emits[e].parent \in GatewayRx

\* the ESC ECU was activated by a yaw rate and its BRAKE_CMD raised one alert
C22_Witness ==
    /\ esc.esc_active
    /\ obs.emits[1].id = "YAW_RATE"
    /\ \E j \in GatewayRx :
          /\ obs.rxs[j].id = "BRAKE_CMD" /\ obs.rxs[j].sender = "ESC_ECU"
          /\ Cardinality(AlertsOf(j)) = 1

\* ------------------------------------------------------------- odometer

\* vehicle.state['v'] as the odometer tests set it, and a standstill
OdoSpeeds == {-10000, 0, 10000, 20000}

\* engine time steps: the fixture's 0.05 s, and 0.1 s
OdoTimeSteps == {50, 100}

\* the lengths of the tests' driving loops
OdoDrives == {1, 20}

InitOdo ==
    \E v0 \in OdoSpeeds, dt \in OdoTimeSteps :
        Start([OdoSetup(dt, NoFile) EXCEPT !.veh.v = v0])

NextOdo ==
    \/ \E n \in OdoDrives : HarnessDrive(OdoTicks, n)
    \/ HarnessBroadcast(OdoCalls, "RESET_TRIP", None, "TestHarness")

SpecOdo == InitOdo /\ [][NextOdo]_vars

\* C23: the odometer still increases when the vehicle drives in reverse:
\* with speed state v = -10 m/s and the engine stepped 20 times at
\* dt = 0.05, total_mileage ends greater than 0 and within 0.01 of 10 m.
C23_ReverseDrivingCounts ==
    [][(/\ ticks = 0 /\ calls = 0 /\ ticks' = 20
        /\ vehicle.v = -10000 /\ engine.dt = 50) =>
          /\ body'.total_mileage > 0
          /\ Abs(body'.total_mileage - 10000) < 10
      ]_vars

\* C24: driving at constant speed v for N ticks of step dt adds v*N*dt to
\* total_mileage and to trip_meter, for every engine step dt: each
\* WHEEL_SPEED message adds |speed| times the engine's dt, the first tick
\* included; total_mileage never decreases.
C24_DistanceIsSpeedTimesTime ==
    [][/\ (/\ ticks' > ticks
           /\ vehicle.v >= 0 /\ vehicle.throttle = Num(0) /\ vehicle.brake = Num(0)) =>
             LET d == Mul(vehicle.v, engine.dt) * (ticks' - ticks)
             IN  /\ body'.total_mileage = body.total_mileage + d
                 /\ body'.trip_meter = body.trip_meter + d
       /\ body'.total_mileage >= body.total_mileage
      ]_vars

\* ---------------------------------------------------- odometer persistence

\* the file at the storage path when the first BodyECU is constructed:
\* absent, not JSON, a JSON list, and JSON objects with both keys or one
NvmFiles ==
    {NoFile, BadFile,
     [kind |-> "json", value |-> List(<<>>)],
     [kind |-> "json", value |-> Dict([total_mileage |-> 5000000, trip_meter |-> 1500])],
     [kind |-> "json", value |-> Dict([total_mileage |-> 5000000])]}

InitNvm ==
    \E f \in NvmFiles, v0 \in {0, 20000} :
        Start([OdoSetup(50, f) EXCEPT !.veh.v = v0])

NextNvm ==
    \/ Tick(NvmTicks)
    \/ HarnessSave(NvmCalls)
    \/ HarnessRestart(NvmCalls, 50, "BodyECU_v2")
    \/ HarnessBroadcast(NvmCalls, "WHEEL_SPEED", Num(10000), "External")

SpecNvm == InitNvm /\ [][NextNvm]_vars

\* the step is body.save_to_nvm() / the construction of a new BodyECU
Saving == obs'.sched = << <<"save_to_nvm", "BodyECU">> >>
Restarting == obs'.sched = << <<"__init__", "BodyECU">> >>

\* the file holds what save_to_nvm wrote for the odometer values t and m
SavedAs(file, t, m) ==
    /\ file.kind = "json" /\ IsDict(file.value)
    /\ DOMAIN file.value.d = {"total_mileage", "trip_meter"}
    /\ file.value.d.total_mileage = t /\ file.value.d.trip_meter = m

\* C25: after save_to_nvm() a new BodyECU on the same storage path has the
\* saved total_mileage and trip_meter, and later WHEEL_SPEED messages
\* accumulate on top of them; a missing or unparsable file gives 0 for
\* both without raising.
C25_NvmRoundTrip ==
    [][/\ Saving => SavedAs(nvm', body.total_mileage, body.trip_meter) /\ body' = body
       /\ Restarting =>
            /\ exc' = "none" /\ nvm' = nvm
            /\ \A t, m \in {body.total_mileage, body.trip_meter, 5000000, 1500} :
                   SavedAs(nvm, t, m) =>
                       body'.total_mileage = t /\ body'.trip_meter = m
            /\ nvm \in {NoFile, BadFile} =>
                   body'.total_mileage = 0 /\ body'.trip_meter = 0
       /\ (/\ obs'.emits # <<>> /\ obs'.emits[1].id = "WHEEL_SPEED"
           /\ obs'.emits[1].sender = "External") =>
             /\ body'.total_mileage = body.total_mileage + Mul(10000, body.dt)
             /\ body'.trip_meter = body.trip_meter + Mul(10000, body.dt)
      ]_vars

\* two ticks at 20 m/s, saved, restarted, and one WHEEL_SPEED of 10 m/s on
\* top: 2.5 m on the new ECU, 2 m in the file
C25_Witness ==
    /\ body.name = "BodyECU_v2"
    /\ SavedAs(nvm, 2000, 2000)
    /\ body.total_mileage = 2500 /\ body.trip_meter = 2500

\* --------------------------------------------------------- passive safety

\* the engine time steps of the repository: 0.01, 0.05, 0.1 and 1.0 s
AirbagTimeSteps == {10, 50, 100, 1000}

\* the brake commands of a driver and the crash pulses of a crash sensor
AirbagMessages ==
    {<<"BRAKE_CMD", Num(1000), "TestHarness">>, <<"BRAKE_CMD", Num(500), "TestHarness">>,
     <<"ACCEL_X", Num(-60000), "CrashSensor">>, <<"ACCEL_X", Num(-20000), "CrashSensor">>}

InitAirbag ==
    \E dt \in AirbagTimeSteps : Start([AirbagSetup(dt) EXCEPT !.veh.v = 30000])

NextAirbag ==
    \/ Tick(AirbagTicks)
    \/ \E m \in AirbagMessages : HarnessBroadcast(AirbagCalls, m[1], m[2], m[3])

SpecAirbag == InitAirbag /\ [][NextAirbag]_vars

\* C26: normal hard braking never deploys the airbag: with the AirbagECU
\* listening to the ACCEL_X of VehicleDynamics, no engine step of a vehicle
\* that brakes with BRAKE_CMD <= 1.0 on mu = 1 broadcasts DEPLOY_AIRBAG or
\* sets airbags_deployed, for every engine time step.
C26_NoDeploymentUnderBraking ==
    [][(/\ ticks' = ticks + 1
        /\ vehicle.brake.v <= 1000
        /\ vehicle.mu_left = 1000 /\ vehicle.mu_right = 1000) =>
          /\ airbag'.airbags_deployed = airbag.airbags_deployed
          /\ \A e \in DOMAIN obs'.emits : obs'.emits[e].id # "DEPLOY_AIRBAG"
      ]_vars

\* ------------------------------------------------------ the fault injector

InjTypes == {"DROP", "CORRUPT", "DELAY"}
InjTargets == {"BRAKE_CMD", "ALL"}
InjMessages == {<<"BRAKE_CMD", Num(1000)>>, <<"HV_TEMP", Num(70000)>>}

\* a bus with a fault injector and no node
InitInj == Start(SetFaultInjector(NewEngine(100)))

NextInj ==
    \/ \E t \in InjTypes, g \in InjTargets : HarnessInject(InjCalls, t, g)
    \/ \E m \in InjMessages : HarnessProcess(InjCalls, m[1], m[2], "TestHarness")

SpecInj == InitInj /\ [][NextInj]_vars

\* some active fault of the given type targets msg_id or 'ALL'
FaultMatches(type, msg_id) ==
    \E i \in DOMAIN injector.active_faults :
        /\ injector.active_faults[i].type = type
        /\ injector.active_faults[i].target \in {msg_id, "ALL"}

\* C27: process(msg_id, data, sender) returns the original msg_id,
\* drop = true iff some active DROP fault has target msg_id or 'ALL', and
\* the payload 'CORRUPTED_DATA' iff some active CORRUPT fault matches (the
\* original payload otherwise); a DELAY fault changes nothing, and process
\* never modifies the fault list.
C27_ProcessFollowsFaultList ==
    [][obs'.ret # <<>> =>
          LET c == obs'.ret[1]
          IN  /\ c.out.id = c.msg_id
              /\ c.out.drop = FaultMatches("DROP", c.msg_id)
              /\ c.out.data = IF FaultMatches("CORRUPT", c.msg_id)
                                THEN Str("CORRUPTED_DATA") ELSE c.data
              /\ injector' = injector
      ]_vars

\* with DELAY on ALL, DROP on ALL and CORRUPT on BRAKE_CMD active, HV_TEMP
\* came back dropped and intact
C27_Witness ==
    /\ obs.ret # <<>>
    /\ Len(injector.active_faults) = 3
    /\ injector.active_faults[1].type = "DELAY"
    /\ obs.ret[1].msg_id = "HV_TEMP"
    /\ obs.ret[1].out = [id |-> "HV_TEMP", data |-> Num(70000), drop |-> TRUE]

\* ------------------------------------------------------------ AEB release

\* the RADAR_OBJECTS receptions of the AdasECU in the call that produced the
\* next state
AdasRadarRxNext ==
    {j \in DOMAIN obs'.rxs :
        nodes'[obs'.rxs[j].node].cls = "AdasECU" /\ obs'.rxs[j].id = "RADAR_OBJECTS"}

\* the BRAKE_CMD broadcasts the AdasECU made while it handled reception j
BrakeCmdsOf(j) ==
    {e \in DOMAIN obs'.emits :
        /\ obs'.emits[e].parent = j
        /\ obs'.emits[e].id = "BRAKE_CMD" /\ obs'.emits[e].sender = adas.name}

\* C28: if aeb_triggered is true and a well-formed RADAR_OBJECTS list holds
\* no in-lane closing object with TTC < 2.5, the AdasECU clears
\* aeb_triggered and broadcasts BRAKE_CMD = 0.0 exactly once; if
\* aeb_triggered is false already it broadcasts no BRAKE_CMD at all.
C28_ReleaseOnceWhenClear ==
    [][\A j \in AdasRadarRxNext :
          (/\ Cardinality(AdasRadarRxNext) = 1
           /\ WellFormed(obs'.rxs[j].data) /\ ~HasThreat(obs'.rxs[j].data)) =>
             /\ ~adas'.aeb_triggered
             /\ IF adas.aeb_triggered
                  THEN /\ Cardinality(BrakeCmdsOf(j)) = 1
                       /\ \A e \in BrakeCmdsOf(j) : obs'.emits[e].data = Num(0)
                ELSE BrakeCmdsOf(j) = {}
      ]_vars

\* the AEB was released on a list whose only in-lane object is 5 s away
C28_Witness ==
    /\ ~adas.aeb_triggered
    /\ \E j \in AdasRadarRx :
          /\ obs.rxs[j].data = List(<<ObjFar, ObjNextLane>>)
          /\ \E e \in EmitsIn(j) :
                 /\ obs.emits[e].id = "BRAKE_CMD" /\ obs.emits[e].data = Num(0)
                 /\ obs.emits[e].sender = adas.name

\* ----------------------------------------------------------- lane keeping

\* CAMERA_LANE payloads as CameraPlant.publish_sensor_data builds them:
\* confidence around the 0.6 limit (or absent), offsets up to 20 m and
\* heading errors up to 1 rad (or absent)
LanePayloads ==
    LET Opt(k, S) == {<<>>} \cup {(k :> x) : x \in S}
    IN  {("lane_offset" :> o) @@ c @@ h :
            o \in {-20000, -1000, 0, 1000, 20000},
            c \in Opt("confidence", {0, 599, 600, 1000}),
            h \in Opt("heading_idx", {-1000, 0, 400})}

InitLka == Start([LkaSetup EXCEPT !.veh.v = 20000])

NextLka ==
    \/ Tick(LkaTicks)
    \/ \E p \in LanePayloads : HarnessBroadcast(LkaCalls, "CAMERA_LANE", Dict(p), "Camera")

SpecLka == InitLka /\ [][NextLka]_vars

\* the CAMERA_LANE receptions of the AdasECU in the last call
AdasLaneRx ==
    {j \in DOMAIN obs.rxs :
        nodes[obs.rxs[j].node].cls = "AdasECU" /\ obs.rxs[j].id = "CAMERA_LANE"}

\* the STEERING_CMD broadcasts issued while reception j was handled
SteeringCmdsOf(j) == {e \in EmitsIn(j) : obs.emits[e].id = "STEERING_CMD"}

\* C29: on CAMERA_LANE with confidence < 0.6 the AdasECU broadcasts no
\* STEERING_CMD; with confidence >= 0.6 it broadcasts exactly one, whose
\* value lies in [-0.5, +0.5], for every lane_offset and heading_idx.
C29_SteeringOnlyWhenConfident ==
    \A j \in AdasLaneRx :
        LET d == obs.rxs[j].data.d
            confidence == IF Has(d, "confidence") THEN d.confidence ELSE 1000
        IN  IF confidence < 600 THEN SteeringCmdsOf(j) = {}
            ELSE /\ Cardinality(SteeringCmdsOf(j)) = 1
                 /\ \A e \in SteeringCmdsOf(j) :
                        /\ obs.emits[e].sender = adas.name
                        /\ obs.emits[e].data.t = "num"
                        /\ obs.emits[e].data.v >= -500 /\ obs.emits[e].data.v <= 500

\* 20 m left of the centre at confidence 0.6: the command is the limit -0.5
C29_Witness ==
    \E j \in AdasLaneRx :
        /\ obs.rxs[j].data.d.lane_offset = 20000
        /\ Has(obs.rxs[j].data.d, "confidence") /\ obs.rxs[j].data.d.confidence = 600
        /\ \E e \in SteeringCmdsOf(j) : obs.emits[e].data = Num(-500)
        /\ vehicle.steering_angle = Num(-500)

\* ------------------------------------------------- the charging session

\* the SoC estimates a test writes: below the target, and the target
ChgSocs == {50000, 90000}

\* the CHARGER_STATUS payloads of a station
ChgStatuses == {[state |-> "CONNECTED", max_power |-> 150000000], [state |-> "DISCONNECTED"]}

InitChg ==
    \E soc \in {50000, 100000} :
        Start([ChargingSetup EXCEPT !.bms.soc_estimate = soc])

NextChg ==
    \/ Tick(ChgTicks)
    \/ HarnessConnectCable(ChgCalls)
    \/ \E soc \in ChgSocs : HarnessSetSoc(ChgCalls, soc)
    \/ \E st \in ChgStatuses :
           HarnessBroadcast(ChgCalls, "CHARGER_STATUS", Dict(st), "DC_Charger")
    \/ \E d \in SensorDrifts :
           HarnessBroadcast(ChgCalls, "SET_SENSOR_DRIFT", Dict(d), "TestHarness")

SpecChg == InitChg /\ [][NextChg]_vars

\* the assignments of the last call that changed charging_state
ChargingChanges == {k \in DOMAIN obs.trans : obs.trans[k].from # obs.trans[k].to}

\* assignment k was made while the BmsECU handled CHARGER_STATUS{state = CONNECTED}
\* and the contactors were closed under that reception
OnConnected(k) ==
    LET j == obs.trans[k].rx
    IN  /\ j > 0
        /\ obs.rxs[j].id = "CHARGER_STATUS"
        /\ Has(obs.rxs[j].data.d, "state") /\ obs.rxs[j].data.d.state = "CONNECTED"
        /\ \E e \in EmitsIn(j) : /\ obs.emits[e].id = "CONTACTOR_STATE"
                                 /\ obs.emits[e].data = Bool(TRUE)

\* assignment k was made in step()
OnStep(k) == obs.trans[k].rx = 0

\* assignment k was made while the BmsECU handled a reading beyond a limit
OnViolation(k) ==
    LET j == obs.trans[k].rx
    IN  /\ j > 0
        /\ \/ obs.rxs[j].id = "HV_VOLTAGE" /\ obs.rxs[j].data.v > MAX_VOLTAGE_LIMIT
           \/ obs.rxs[j].id = "HV_VOLTAGE" /\ obs.rxs[j].data.v < MIN_VOLTAGE_LIMIT
           \/ obs.rxs[j].id = "HV_TEMP" /\ obs.rxs[j].data.v > MAX_TEMP_LIMIT

\* the transitions the statement lists
ListedTransition(k) ==
    LET t == obs.trans[k]
    IN  \/ t.from = "IDLE" /\ t.to = "HANDSHAKE" /\ OnConnected(k)
        \/ t.from = "HANDSHAKE" /\ t.to = "CHARGING" /\ OnStep(k) /\ t.soc < bms.target_soc
        \/ t.from = "CHARGING" /\ t.to = "IDLE" /\ OnStep(k) /\ t.soc >= bms.target_soc
        \/ t.to = "IDLE" /\ OnViolation(k)

C30_HandshakeToIdle ==
    \E k \in ChargingChanges :
        /\ obs.trans[k].from = "HANDSHAKE" /\ obs.trans[k].to = "IDLE"
        /\ OnStep(k) /\ obs.trans[k].soc >= bms.target_soc

\* ------------------------------------------- the end of a charging session

\* the step is a tick the BmsECU enters in CHARGING with the target reached,
\* over a connected cable: no reception of the tick changed charging_state
\* before BmsECU.step ran
TargetReachedTick ==
    /\ ticks' = ticks + 1
    /\ exc' = "none"
    /\ charger.connected
    /\ bms.charging_state = "CHARGING"
    /\ bms.soc_estimate >= bms.target_soc
    /\ \A k \in DOMAIN obs'.trans : obs'.trans[k].rx = 0

\* the broadcasts BmsECU.step made itself in the call that led to the next state
StepEmits(msg_id, data) ==
    {e \in DOMAIN obs'.emits :
        /\ obs'.emits[e].parent = 0 /\ obs'.emits[e].sender = bms.name
        /\ obs'.emits[e].id = msg_id /\ obs'.emits[e].data = data}

\* what the statement promises of such a tick
SessionEnded ==
    /\ \E e1 \in StepEmits("CHARGE_REQUEST", Dict([charging_enabled |-> FALSE])) :
       \E e2 \in StepEmits("CONTACTOR_STATE", Bool(FALSE)) : e1 < e2
    /\ bms'.charging_state = "IDLE" /\ ~bms'.contactors_closed
    /\ charger'.state = "CONNECTED"
    /\ charger'.voltage_supply = 0 /\ charger'.current_supply = 0

\* C31: when the BMS is CHARGING and soc_estimate >= target_soc at a step,
\* it broadcasts in that step CHARGE_REQUEST{charging_enabled: false} and
\* then CONTACTOR_STATE = false, ends in IDLE with contactors open, and the
\* ChargingStation ends in CONNECTED (not ERROR) with zero supply.
C31_SessionEndsAtTarget == [][TargetReachedTick => SessionEnded]_vars

\* ----------------------------------------------- the UDS service table

\* service ids 0x10, 0x22, 0x31 and the unsupported 0x3E and 0x3F;
\* sub-functions 1 .. 4; data identifiers 0xF190, 0x0200, 0x0100, 0x1234
SvcRequests ==
    LET Opt(k, S) == {<<>>} \cup {(k :> x) : x \in S}
    IN  {("sid" :> sid) @@ a @@ b :
            sid \in {16, 34, 49, 62, 63}, a \in Opt("sub_fn", {1, 2, 3, 4}),
            b \in Opt("did", {61840, 512, 256, 4660})}

InitSvc == Start(UdsSetup)

NextSvc ==
    \/ Tick(SvcTicks)
    \/ \E r \in SvcRequests :
           HarnessBroadcast(SvcCalls, "UDS_REQUEST", Dict(r), "TestHarness")

SpecSvc == InitSvc /\ [][NextSvc]_vars

\* the call that led to the next state was a UDS_REQUEST of the tester
SvcCall == obs'.emits # <<>> /\ obs'.emits[1].id = "UDS_REQUEST"

\* the one UDS_RESPONSE of that call is the positive response with data
SvcPositive(data) ==
    LET q == obs'.emits[1].data.d
        R == {e \in DOMAIN obs'.emits : obs'.emits[e].id = "UDS_RESPONSE"}
    IN  /\ Cardinality(R) = 1
        /\ \A e \in R :
               /\ obs'.emits[e].sender = gateway.name
               /\ obs'.emits[e].data =
                      Dict([sid |-> q.sid + 64,
                            sub_fn |-> IF Has(q, "sub_fn") THEN q.sub_fn ELSE 0,
                            data |-> data])

\* the one UDS_RESPONSE of that call is the negative response with code nrc,
\* and the gateway is as before
SvcNegative(nrc) ==
    LET q == obs'.emits[1].data.d
        R == {e \in DOMAIN obs'.emits : obs'.emits[e].id = "UDS_RESPONSE"}
    IN  /\ Cardinality(R) = 1
        /\ \A e \in R :
               /\ obs'.emits[e].sender = gateway.name
               /\ obs'.emits[e].data =
                      Dict([sid |-> 127, request_sid |-> q.sid, nrc |-> nrc])
        /\ gateway' = gateway

EvseRequests ==
    {[voltage_target |-> 400000, current_target |-> 100000, charging_enabled |-> TRUE],
     [charging_enabled |-> FALSE]}

InitEvse == Start([ChargingSetup EXCEPT !.bms.soc_estimate = 50000])

NextEvse ==
    \/ Tick(EvseTicks)
    \/ HarnessConnectCable(EvseCalls)
    \/ \E b \in BOOLEAN :
           HarnessBroadcast(EvseCalls, "CONTACTOR_STATE", Bool(b), "TestHarness")
    \/ \E r \in EvseRequests :
           HarnessBroadcast(EvseCalls, "CHARGE_REQUEST", Dict(r), "TestHarness")
    \/ HarnessBroadcast(EvseCalls, "SET_SENSOR_DRIFT", Dict([voltage |-> -90000]),
                        "TestHarness")

SpecEvse == InitEvse /\ [][NextEvse]_vars

\* the call that led to the next state was a broadcast of msg_id by the test
EvseCall(msg_id) ==
    /\ obs'.emits # <<>>
    /\ obs'.emits[1].id = msg_id /\ obs'.emits[1].sender = "TestHarness"

\* the broadcasts the ChargingStation made in that call
EvseEmits == {e \in DOMAIN obs'.emits : obs'.emits[e].sender = charger.name}

ZeroOutput == Dict([voltage |-> 0, current |-> 0])

\* C33: CONTACTOR_STATE = false arriving while the charger is CHARGING takes
\* it to ERROR with voltage_supply = current_supply = 0 and one
\* CHARGER_OUTPUT{voltage 0, current 0}; a CONTACTOR_STATE message in any
\* other charger state changes nothing and emits nothing.
C33_EmergencyStopOnlyWhenCharging ==
    [][EvseCall("CONTACTOR_STATE") =>
        IF charger.state = "CHARGING" /\ ~Truthy(obs'.emits[1].data)
          THEN /\ charger' = [charger EXCEPT !.state = "ERROR", !.voltage_supply = 0,
                                             !.current_supply = 0]
               /\ Cardinality(EvseEmits) = 1
               /\ \A e \in EvseEmits : /\ obs'.emits[e].id = "CHARGER_OUTPUT"
                                       /\ obs'.emits[e].data = ZeroOutput
          ELSE charger' = charger /\ EvseEmits = {}]_vars

\* the emergency stop of a charger that was supplying 400 V
C33_Witness ==
    /\ charger.state = "ERROR" /\ charger.voltage_supply = 0
    /\ obs.emits # <<>> /\ obs.emits[1].id = "CONTACTOR_STATE"
    /\ obs.emits[1].sender = "TestHarness"
    /\ \E e \in DOMAIN obs.emits : obs.emits[e].data = ZeroOutput

\* the call that led to the next state was charger.connect_cable()
ConnectCableCall ==
    /\ obs'.emits # <<>>
    /\ obs'.emits[1].id = "CHARGER_STATUS" /\ obs'.emits[1].sender = charger.name

\* C38: once the ChargingStation is in ERROR it stays in ERROR with zero
\* output until connect_cable() is called again: no CHARGE_REQUEST and no
\* CONTACTOR_STATE takes it out of ERROR or makes it supply power.
C38_ErrorIsLatched ==
    [][(charger.state = "ERROR" /\ ~ConnectCableCall)
          => /\ charger'.state = "ERROR"
             /\ charger'.voltage_supply = 0 /\ charger'.current_supply = 0]_vars

\* ------------------------------------------------ the radar's object list

\* the objects a test adds: one leaving the range ahead within a tick, one
\* leaving it behind, one staying in range, one that only moves sideways
RadarKinds ==
    {[dist |-> 199000, rel_speed |-> 20000, lat_pos |-> 0, lat_speed |-> 0],
     [dist |-> -9500, rel_speed |-> -10000, lat_pos |-> 0, lat_speed |-> 0],
     [dist |-> 100000, rel_speed |-> -20000, lat_pos |-> 0, lat_speed |-> 0],
     [dist |-> 50000, rel_speed |-> 0, lat_pos |-> 3000, lat_speed |-> -1000]}

InitRadar == Start(SafetySetup)

NextRadar ==
    \/ Tick(RadarTicks)
    \/ \E o \in RadarKinds :
           HarnessAddObject(RadarCalls, Len(radar.objects) + 1, o.dist, o.rel_speed,
                            o.lat_pos, o.lat_speed)

SpecRadar == InitRadar /\ [][NextRadar]_vars

\* one step of an object at the engine's time step
Advanced(o) ==
    [o EXCEPT !.dist = @ + Mul(o.rel_speed, engine.dt),
              !.lat_pos = @ + Mul(o.lat_speed, engine.dt)]

InRange(o) == o.dist >= -10000 /\ o.dist <= 200000

\* the list with every object advanced by one step
AllAdvanced(objects) == [i \in DOMAIN objects |-> Advanced(objects[i])]

\* C34: update_physics advances every object of the list by exactly one
\* step on every tick and removes exactly the objects whose new dist is
\* < -10 or > 200, skipping no element when another one is removed.
C34_EveryObjectAdvancedOnce ==
    [][(ticks' = ticks + 1 /\ exc' = "none")
          => radar'.objects = SelectSeq(AllAdvanced(radar.objects), InRange)]_vars

\* ------------------------------------------------ one delivery per node

\* the receptions of broadcast k by the node object called name
DeliveriesTo(k, name) == {j \in RxOf(k) : nodes[obs.rxs[j].node].name = name}

\* the CHARGER_OUTPUT broadcasts made under the receptions of broadcast k
OutputsFor(k) ==
    {e \in DOMAIN obs.emits :
        /\ obs.emits[e].id = "CHARGER_OUTPUT"
        /\ obs.emits[e].parent \in RxOf(k)}

\* C35: every non-dropped broadcast invokes receive_message exactly once on
\* each node object other than the sender, for every node class, so a single
\* CHARGE_REQUEST produces a single CHARGER_OUTPUT.
C35_OneDeliveryPerNode ==
    exc = "none" =>
        \A k \in DOMAIN obs.emits :
            ~obs.emits[k].drop =>
                /\ \A i \in DOMAIN nodes :
                       nodes[i].name # obs.emits[k].sender
                           => Cardinality(DeliveriesTo(k, nodes[i].name)) = 1
                /\ (obs.emits[k].id = "CHARGE_REQUEST" /\ charger.connected)
                       => Cardinality(OutputsFor(k)) = 1

\* ------------------------------------- charging only on closed contactors

\* the CHARGE_REQUEST broadcasts with charging_enabled = true that
\* BmsECU.step made in the last call
EnabledRequests ==
    {e \in DOMAIN obs.emits :
        /\ obs.emits[e].id = "CHARGE_REQUEST" /\ obs.emits[e].sender = bms.name
        /\ obs.emits[e].parent = 0
        /\ Has(obs.emits[e].data.d, "charging_enabled")
        /\ obs.emits[e].data.d.charging_enabled}

\* C36: the BMS never broadcasts CHARGE_REQUEST with charging_enabled = true
\* while its contactors are open, in any reachable state of the charging
\* FSM, also after an under-voltage, over-voltage or over-temperature event
\* during a session.  (The request is the last statement of step; the
\* contactors are as they were when it was made.)
C36_NoRequestOnOpenContactors ==
    EnabledRequests # {} => bms.contactors_closed

\* ------------------------------------------- several sources of BRAKE_CMD

\* the commands of a test and of the driver next to the AEB: partial and no
\* braking, and a steering step that makes the ESC intervene
ArbMessages ==
    {<<"BRAKE_CMD", Num(500), "TestHarness">>, <<"BRAKE_CMD", Num(0), "Driver">>,
     <<"STEERING_CMD", Num(500), "TestHarness">>}

InitArb ==
    Start(AddObject([ArbSetup EXCEPT !.veh.v = 20000], 1, 30000, -20000, 0, 0))

NextArb ==
    \/ Tick(ArbTicks)
    \/ \E m \in ArbMessages : HarnessBroadcast(ArbCalls, m[1], m[2], m[3])

SpecArb == InitArb /\ [][NextArb]_vars

\* C37: while AdasECU.aeb_triggered is true, the brake input that
\* VehicleDynamics.update_physics uses on each following tick is 1.0, also
\* when other producers broadcast BRAKE_CMD on the same bus.  (The vehicle
\* is the first plant of the tick: update_physics reads the brake input the
\* tick starts with.)
C37_AebBrakeNotOverwritten ==
    [][(ticks' = ticks + 1 /\ adas.aeb_triggered) => vehicle.brake = Num(1000)]_vars

\* --------------------------------------------------- chains of broadcasts

\* the messages a test sends that make a receiver broadcast: a threat on the
\* radar, a lane, a UDS request, a command of an unknown sender, a steering
\* step, an under-voltage drift, a crash pulse
StormMessages ==
    {<<"RADAR_OBJECTS", List(<<ObjThreat>>), "TestHarness">>,
     <<"CAMERA_LANE", Dict([lane_offset |-> 1000, confidence |-> 900]), "Camera">>,
     <<"UDS_REQUEST", Dict([sid |-> 16, sub_fn |-> 3]), "TestHarness">>,
     <<"BRAKE_CMD", Num(1000), "Hacker">>,
     <<"STEERING_CMD", Num(500), "TestHarness">>,
     <<"SET_SENSOR_DRIFT", Dict([voltage |-> -90000]), "TestHarness">>,
     <<"ACCEL_X", Num(-60000), "TestHarness">>}

InitStorm ==
    Start([FullSetup EXCEPT !.veh.v = 20000, !.bms.soc_estimate = 50000])

NextStorm ==
    \/ Tick(StormTicks)
    \/ HarnessConnectCable(StormCalls)
    \/ \E m \in StormMessages : HarnessBroadcast(StormCalls, m[1], m[2], m[3])

SpecStorm == InitStorm /\ [][NextStorm]_vars

\* the number of receive_message calls around broadcast e of the last call
RECURSIVE NestingOf(_)
NestingOf(e) ==
    IF obs.emits[e].parent = 0 THEN 0
    ELSE 1 + NestingOf(obs.rxs[obs.emits[e].parent].bc)

\* C39: every broadcast terminates: the chain of re-entrant broadcasts that a
\* single message triggers among the nodes of all ten classes is finite with
\* bounded nesting depth (two receive_message calls deep at most), and every
\* engine.step() runs through all of its plants and ECUs.
C39_BoundedNesting ==
    /\ \A e \in DOMAIN obs.emits : NestingOf(e) <= 2
    /\ (WasTick /\ exc = "none") => obs.sched = PlantCalls \o EcuCalls

\* a chain of full depth: the battery's under-voltage reading makes the BMS
\* open the contactors, which makes the charging station stop
C39_Witness ==
    \E e \in DOMAIN obs.emits :
        /\ NestingOf(e) = 2
        /\ obs.emits[e].id = "CHARGER_OUTPUT"
        /\ obs.rxs[obs.emits[e].parent].id = "CONTACTOR_STATE"
        /\ WasTick /\ exc = "none"

\* ------------------------------------------------- faults do not expire

\* durations in seconds: the default 0, one tick, five seconds
ExpDurations == {0, 100, 5000}

\* the safety bench with the vehicle closing in on an obstacle: the AdasECU
\* sends BRAKE_CMD on every tick
InitExp ==
    Start(AddObject([SafetySetup EXCEPT !.veh.v = 20000], 1, 30000, -20000, 0, 0))

NextExp ==
    \/ Tick(ExpTicks)
    \/ \E t \in {"DROP", "CORRUPT"}, g \in {"BRAKE_CMD", "ALL"}, d \in ExpDurations :
           HarnessInjectFor(ExpCalls, t, g, d)
    \/ HarnessBroadcast(ExpCalls, "BRAKE_CMD", Num(500), "TestHarness")
    \/ HarnessSetFaultInjector(ExpCalls)

SpecExp == InitExp /\ [][NextExp]_vars

\* s is an initial part of t
IsPrefix(s, t) == Len(s) <= Len(t) /\ SubSeq(t, 1, Len(s)) = s

\* the call that led to the next state was set_fault_injector
ReplacedInjector ==
    obs'.sched = <<<<"set_fault_injector", "VirtualBus">>>>

\* some fault of the list, of the given type, targets msg_id or 'ALL'
Active(faults, type, msg_id) ==
    \E i \in DOMAIN faults :
        faults[i].type = type /\ faults[i].target \in {msg_id, "ALL"}

\* C40: an injected fault stays active for the rest of the run whatever its
\* duration: active_faults only grows, no tick or message removes a fault,
\* and a DROP or CORRUPT fault injected once applies to every later matching
\* broadcast until the injector is replaced with set_fault_injector.
C40_FaultsNeverExpire ==
    [][/\ ~ReplacedInjector => IsPrefix(injector.active_faults, injector'.active_faults)
       /\ \A e \in DOMAIN obs'.emits :
              LET m == obs'.emits[e]
              IN  /\ m.drop = Active(injector.active_faults, "DROP", m.id)
                  /\ m.sent = IF Active(injector.active_faults, "CORRUPT", m.id)
                                THEN Str("CORRUPTED_DATA") ELSE m.data
      ]_vars

\* a DROP fault of duration 0.1 s injected before the first tick still drops
\* the BRAKE_CMD of the third tick: no BRAKE_CMD ever reached the log
C40_Witness ==
    /\ ticks = 3 /\ WasTick
    /\ injector.active_faults = <<[type |-> "DROP", target |-> "BRAKE_CMD", duration |-> 100]>>
    /\ \E e \in DOMAIN obs.emits : obs.emits[e].id = "BRAKE_CMD" /\ obs.emits[e].drop
    /\ \A i \in DOMAIN message_log : message_log[i].id # "BRAKE_CMD"

=============================================================================
